---- MODULE Spec2Model ----
(***************************************************************************)
(* Verification model of the task-management Discord bot:                  *)
(*   - utils/time_parser.py        TimeParser (natural-language times)     *)
(*   - services/google_sheets.py   ingestion of worksheet rows             *)
(*   - services/shift_report_service.py  ShiftReportService._detect_changes*)
(* Text is modelled as strings, character by character; timestamps as      *)
(* records of a proleptic Gregorian day ordinal and a time of day.          *)
(***************************************************************************)
EXTENDS Integers, Sequences, FiniteSets, TLC

VARIABLES
    time_str,        \* TimeParser.parse: the text argument
    reference_time,  \* TimeParser.parse: the reference instant
    parse_result,    \* the outcome of TimeParser.parse (NotRun before the call)
    now,             \* format_datetime: the value datetime.now() returns in it
    formatted,       \* the text format_datetime returns ("" before the call)
    baseline_data,   \* _detect_changes: the baseline snapshot (list of row dicts)
    current_data,    \* _detect_changes: the current snapshot (list of row dicts)
    report,          \* the ChangeReport returned by _detect_changes (NoReport before)
    cell,            \* _analyze_tracking_data: the raw value of one customer cell
    classification,  \* what the analyzer did with cell (NotClassified before)
    tracking_data,   \* _analyze_tracking_data: its argument data (list of row dicts)
    analysis,        \* the outcome of _analyze_tracking_data (NotAnalyzed before)
    first_data_row,  \* the first row of a snapshot, which gives the columns
    sheet_row,       \* a row of the snapshot
    detector_view,   \* how _detect_changes reads first_data_row and sheet_row
    analyzer_view,   \* how _analyze_tracking_data reads them
    tool_input,      \* create_reminder: target_name, reminder_text and time_expression
    parse_now,       \* create_reminder: the value datetime.now() returns inside parse
    check_now,       \* create_reminder: the value datetime.now() returns at the check
    insert_raises,   \* create_reminder: whether the insert into reminders raises
    tool_reply,      \* what the create_reminder tool answers ("" before the call)
    inserted,        \* the rows the create_reminder tool inserted into reminders
    reminders,       \* the rows of the reminders table, a row's id being its place
    scheduler_now,   \* what datetime.now() returns to the scheduler
    pass_list,       \* check_user_reminders: the list read by the running pass
    pass_pos,        \* the place in pass_list of the reminder whose channel.send(message)
                     \* the pass awaits (0: no pass runs)
    passes,          \* the number of passes of check_user_reminders started
    deliveries,      \* for each reminder id, the messages sent to its channel
    calls_ended,     \* the ids whose _send_user_reminder call returned in the last step
    cancelled_ok,    \* the ids cancel_reminder has returned True for
    last_cancel,     \* the cancel_reminder call made in the last step (NoCancel: none)
    snapshots,       \* the rows of the sheet_snapshots table, in the order of their insertion
    today,           \* the calendar day date.today() returns
    runs,            \* the number of runs of the two shift report jobs
    last_run,        \* the last run of a shift report job: which job, and the employees it processed
    blank_reminder_file, \* for each employee, the file tmp/blank_reminder_<employee>.txt
    daily_now,       \* what datetime.now() returns to the daily reminder job, in hours
    last_reminder    \* what the last call of _send_employee_reminder did

vars ==
    <<time_str, reference_time, parse_result, now, formatted,
      baseline_data, current_data, report, cell, classification, tracking_data, analysis,
      first_data_row, sheet_row, detector_view, analyzer_view,
      tool_input, parse_now, check_now, insert_raises, tool_reply, inserted,
      reminders, scheduler_now, pass_list, pass_pos, passes, deliveries, calls_ended,
      cancelled_ok, last_cancel,
      snapshots, today, runs, last_run,
      blank_reminder_file, daily_now, last_reminder>>

parseVars == <<time_str, reference_time, parse_result>>
formatVars == <<now, formatted>>
diffVars == <<baseline_data, current_data, report>>
statusVars == <<cell, classification>>
analyzeVars == <<tracking_data, analysis>>
attributeVars == <<first_data_row, sheet_row, detector_view, analyzer_view>>
toolVars == <<tool_input, parse_now, check_now, insert_raises, tool_reply, inserted>>
snapshotVars == <<snapshots, today, runs, last_run>>
deliveryVars ==
    <<reminders, scheduler_now, pass_list, pass_pos, passes, deliveries, calls_ended,
      cancelled_ok, last_cancel>>
dailyVars == <<blank_reminder_file, daily_now, last_reminder>>

\* what the actions on one part of the state leave unchanged
notParse == <<formatVars, diffVars, statusVars, analyzeVars, attributeVars, toolVars, deliveryVars, snapshotVars, dailyVars>>
notFormat == <<parseVars, diffVars, statusVars, analyzeVars, attributeVars, toolVars, deliveryVars, snapshotVars, dailyVars>>
notDiff == <<parseVars, formatVars, statusVars, analyzeVars, attributeVars, toolVars, deliveryVars, snapshotVars, dailyVars>>
notStatus == <<parseVars, formatVars, diffVars, analyzeVars, attributeVars, toolVars, deliveryVars, snapshotVars, dailyVars>>
notAnalyze == <<parseVars, formatVars, diffVars, statusVars, attributeVars, toolVars, deliveryVars, snapshotVars, dailyVars>>
notAttribute == <<parseVars, formatVars, diffVars, statusVars, analyzeVars, toolVars, deliveryVars, snapshotVars, dailyVars>>
notTool == <<parseVars, formatVars, diffVars, statusVars, analyzeVars, attributeVars, deliveryVars, snapshotVars, dailyVars>>
notDelivery == <<parseVars, formatVars, diffVars, statusVars, analyzeVars, attributeVars, toolVars, snapshotVars, dailyVars>>
notSnapshot == <<parseVars, formatVars, diffVars, statusVars, analyzeVars, attributeVars, toolVars, deliveryVars, dailyVars>>
notDaily == <<parseVars, formatVars, diffVars, statusVars, analyzeVars, attributeVars, toolVars, deliveryVars, snapshotVars>>

(***************************************************************************)
(* Strings (Python str)                                                    *)
(***************************************************************************)

\* s[i-1] as a one-character string, "" when out of range
At(s, i) == IF i >= 1 /\ i <= Len(s) THEN SubSeq(s, i, i) ELSE ""

\* s[i-1:].startswith(lit)
StartsAt(s, i, lit) ==
    /\ i >= 1
    /\ i + Len(lit) - 1 <= Len(s)
    /\ SubSeq(s, i, i + Len(lit) - 1) = lit

\* lit in s
Contains(s, lit) == \E i \in 1..(Len(s) - Len(lit) + 1) : StartsAt(s, i, lit)

\* s.startswith(lit)
StartsWith(s, lit) == StartsAt(s, 1, lit)

UpperAlpha == "ABCDEFGHIJKLMNOPQRSTUVWXYZ"
LowerAlpha == "abcdefghijklmnopqrstuvwxyz"

UpperChars == { At(UpperAlpha, i) : i \in 1..26 }

\* the lower-case letter of each upper-case letter
LowerOf == [c \in UpperChars |-> At(LowerAlpha, CHOOSE i \in 1..26 : At(UpperAlpha, i) = c)]

LowerChar(c) == IF c \in UpperChars THEN LowerOf[c] ELSE c

RECURSIVE LowerFrom(_, _)
LowerFrom(s, i) == IF i > Len(s) THEN "" ELSE LowerChar(At(s, i)) \o LowerFrom(s, i + 1)

\* str.lower()
Lower(s) == LowerFrom(s, 1)

IsSpace(c) == c \in {" ", "\t", "\n", "\r"}

RECURSIVE FirstNonSpace(_, _)
FirstNonSpace(s, i) ==
    IF i > Len(s) THEN i
    ELSE IF IsSpace(At(s, i)) THEN FirstNonSpace(s, i + 1) ELSE i

RECURSIVE LastNonSpace(_, _)
LastNonSpace(s, j) ==
    IF j < 1 THEN j
    ELSE IF IsSpace(At(s, j)) THEN LastNonSpace(s, j - 1) ELSE j

\* str.strip()
Strip(s) ==
    LET i == FirstNonSpace(s, 1)
        j == LastNonSpace(s, Len(s))
    IN  IF i > j THEN "" ELSE SubSeq(s, i, j)

RECURSIVE RStripChar(_, _)
\* str.rstrip(c) for a single character c
RStripChar(s, c) ==
    IF Len(s) > 0 /\ At(s, Len(s)) = c THEN RStripChar(SubSeq(s, 1, Len(s) - 1), c) ELSE s

Digits == "0123456789"

DigitChars == { At(Digits, i) : i \in 1..10 }

DigitValueOf == [c \in DigitChars |-> (CHOOSE i \in 1..10 : At(Digits, i) = c) - 1]

IsDigit(c) == c \in DigitChars

DigitValue(c) == DigitValueOf[c]

RECURSIVE ParseInt(_)
\* int(s) for a string of decimal digits
ParseInt(s) ==
    IF Len(s) = 0 THEN 0
    ELSE 10 * ParseInt(SubSeq(s, 1, Len(s) - 1)) + DigitValue(At(s, Len(s)))

RECURSIVE DigitRunEnd(_, _)
\* the index of the last digit of the maximal digit run that starts at i
\* (i - 1 when s[i] is no digit): what a greedy \d+ consumes
DigitRunEnd(s, i) == IF IsDigit(At(s, i)) THEN DigitRunEnd(s, i + 1) ELSE i - 1

RECURSIVE SpaceRunEnd(_, _)
\* the index just past the maximal whitespace run that starts at i: greedy \s*
SpaceRunEnd(s, i) == IF IsSpace(At(s, i)) THEN SpaceRunEnd(s, i + 1) ELSE i

Min(S) == CHOOSE x \in S : \A y \in S : x <= y

(***************************************************************************)
(* datetime and timedelta                                                  *)
(***************************************************************************)

\* date.max.toordinal(): 31 December 9999
MaxOrdinal == 9999 * 365 + (9999 \div 4) - (9999 \div 100) + (9999 \div 400)

\* the largest number of days a timedelta holds
MaxDeltaDays == 10^9 - 1

DateTime(d, h, m, s, us) == [day |-> d, hour |-> h, minute |-> m, second |-> s, microsecond |-> us]

NoDT == DateTime(0, 0, 0, 0, 0)

\* outcomes of a call: a datetime, None, or a raised exception
Some(dt) == [kind |-> "ok", dt |-> dt, exc |-> ""]
None == [kind |-> "none", dt |-> NoDT, exc |-> ""]
Raise(e) == [kind |-> "raise", dt |-> NoDT, exc |-> e]
NotRun == [kind |-> "notrun", dt |-> NoDT, exc |-> ""]

\* datetime.weekday(): Monday is 0; ordinal 1 (0001-01-01) is a Monday
Weekday(dt) == (dt.day - 1) % 7

SecondsOfDay(dt) == dt.hour * 3600 + dt.minute * 60 + dt.second

\* dt1 <= dt2
DtLeq(a, b) ==
    \/ a.day < b.day
    \/ /\ a.day = b.day
       /\ \/ SecondsOfDay(a) < SecondsOfDay(b)
          \/ SecondsOfDay(a) = SecondsOfDay(b) /\ a.microsecond <= b.microsecond

\* timedelta(hours=v), timedelta(minutes=v), timedelta(days=v), timedelta(weeks=v),
\* normalised to days and seconds
TdHours(v) == [days |-> v \div 24, seconds |-> (v % 24) * 3600]
TdMinutes(v) == [days |-> v \div 1440, seconds |-> (v % 1440) * 60]
TdDays(v) == [days |-> v, seconds |-> 0]
TdWeeks(v) == [days |-> 7 * v, seconds |-> 0]

\* dt + td: OverflowError when the timedelta or the sum is out of range
Add(dt, td) ==
    LET total == SecondsOfDay(dt) + td.seconds
        d == dt.day + td.days + (total \div 86400)
        rest == total % 86400
    IN  IF td.days > MaxDeltaDays \/ d > MaxOrdinal
        THEN Raise("OverflowError")
        ELSE Some(DateTime(d, rest \div 3600, (rest % 3600) \div 60, rest % 60, dt.microsecond))

\* dt.replace(hour=h, minute=m, second=0, microsecond=0): ValueError when out of range
Replace(dt, h, m) ==
    IF h > 23 \/ m > 59
    THEN Raise("ValueError")
    ELSE Some(DateTime(dt.day, h, m, 0, 0))

\* (dt + td).replace(hour=h, minute=m, second=0, microsecond=0)
AddThenReplace(dt, td, h, m) ==
    LET r == Add(dt, td) IN IF r.kind = "ok" THEN Replace(r.dt, h, m) ELSE r

(***************************************************************************)
(* TimeParser                                                              *)
(***************************************************************************)

\* the (pattern, unit) list of _parse_relative, in its order; "in" stands for
\* r'in (\d+) <word>(?:s)?' and "fromnow" for r'(\d+) <word>(?:s)? from now'
RelativePatterns == <<
    [form |-> "in", word |-> "hour", unit |-> "hours"],
    [form |-> "in", word |-> "minute", unit |-> "minutes"],
    [form |-> "in", word |-> "day", unit |-> "days"],
    [form |-> "in", word |-> "week", unit |-> "weeks"],
    [form |-> "in", word |-> "month", unit |-> "months"],
    [form |-> "fromnow", word |-> "hour", unit |-> "hours"],
    [form |-> "fromnow", word |-> "minute", unit |-> "minutes"],
    [form |-> "fromnow", word |-> "day", unit |-> "days"] >>

\* start positions at which r'in (\d+) <word>(?:s)?' matches; the optional s is
\* the end of the pattern, so it never decides the match
InMatches(s, word) ==
    { i \in 1..Len(s) :
        /\ StartsAt(s, i, "in ")
        /\ IsDigit(At(s, i + 3))
        /\ StartsAt(s, DigitRunEnd(s, i + 3) + 1, " " \o word) }

\* start positions at which r'(\d+) <word>(?:s)? from now' matches
FromNowMatches(s, word) ==
    { i \in 1..Len(s) :
        /\ IsDigit(At(s, i))
        /\ LET e == DigitRunEnd(s, i)
               w == e + 1 + Len(word) + 1
           IN  /\ StartsAt(s, e + 1, " " \o word)
               /\ \/ StartsAt(s, w, " from now")
                  \/ At(s, w) = "s" /\ StartsAt(s, w + 1, " from now") }

\* re.search(pattern, time_str): the set of match starts (empty: no match)
RelativeMatches(s, p) ==
    IF p.form = "in" THEN InMatches(s, p.word) ELSE FromNowMatches(s, p.word)

\* int(match.group(1)) of the leftmost match
RelativeValue(s, p) ==
    LET i == Min(RelativeMatches(s, p))
        j == IF p.form = "in" THEN i + 3 ELSE i
    IN  ParseInt(SubSeq(s, j, DigitRunEnd(s, j)))

\* the timedelta _parse_relative adds for a unit
RelativeDelta(unit, value) ==
    CASE unit = "hours" -> TdHours(value)
      [] unit = "minutes" -> TdMinutes(value)
      [] unit = "days" -> TdDays(value)
      [] unit = "weeks" -> TdWeeks(value)
      [] unit = "months" -> TdDays(value * 30)

RECURSIVE ParseRelativeFrom(_, _, _)
ParseRelativeFrom(s, ref_time, k) ==
    IF k > Len(RelativePatterns) THEN None
    ELSE IF RelativeMatches(s, RelativePatterns[k]) # {}
         THEN Add(ref_time, RelativeDelta(RelativePatterns[k].unit,
                                          RelativeValue(s, RelativePatterns[k])))
         ELSE ParseRelativeFrom(s, ref_time, k + 1)

\* TimeParser._parse_relative
ParseRelative(s, ref_time) == ParseRelativeFrom(s, ref_time, 1)

\* the weekdays dict of _parse_specific_day, in insertion (iteration) order
WeekdayKeys == <<
    <<"monday", 0>>, <<"mon", 0>>,
    <<"tuesday", 1>>, <<"tue", 1>>, <<"tues", 1>>,
    <<"wednesday", 2>>, <<"wed", 2>>,
    <<"thursday", 3>>, <<"thu", 3>>, <<"thur", 3>>, <<"thurs", 3>>,
    <<"friday", 4>>, <<"fri", 4>>,
    <<"saturday", 5>>, <<"sat", 5>>,
    <<"sunday", 6>>, <<"sun", 6>> >>

\* the tomorrow branch of _parse_specific_day
ParseTomorrow(s, ref_time) ==
    IF Contains(s, "morning") THEN AddThenReplace(ref_time, TdDays(1), 9, 0)
    ELSE IF Contains(s, "afternoon") THEN AddThenReplace(ref_time, TdDays(1), 14, 0)
    ELSE IF Contains(s, "evening") \/ Contains(s, "night")
         THEN AddThenReplace(ref_time, TdDays(1), 18, 0)
    ELSE AddThenReplace(ref_time, TdDays(1), 9, 0)

\* the weekend branch without the Saturday-afternoon rule
ParseWeekendNoAfternoonRule(ref_time) ==
    AddThenReplace(ref_time, TdDays((5 - Weekday(ref_time)) % 7), 10, 0)

\* the weekend branch of _parse_specific_day
ParseWeekend(ref_time) ==
    LET d == (5 - Weekday(ref_time)) % 7
        days_until_saturday == IF d = 0 /\ ref_time.hour > 12 THEN 7 ELSE d
    IN  AddThenReplace(ref_time, TdDays(days_until_saturday), 10, 0)

\* the weekday loop with "days_ahead < 0": the named day may be today
ParseWeekdayNameSameDay(s, ref_time) ==
    LET hits == { k \in 1..Len(WeekdayKeys) : Contains(s, WeekdayKeys[k][1]) }
    IN  IF hits = {} THEN None
        ELSE LET day_num == WeekdayKeys[Min(hits)][2]
                 diff == day_num - Weekday(ref_time)
                 days_ahead == IF diff < 0 THEN diff + 7 ELSE diff
             IN  AddThenReplace(ref_time, TdDays(days_ahead), 9, 0)

\* the loop over the weekdays dict: the first key found in the text decides
ParseWeekdayName(s, ref_time) ==
    LET hits == { k \in 1..Len(WeekdayKeys) : Contains(s, WeekdayKeys[k][1]) }
    IN  IF hits = {} THEN None
        ELSE LET day_num == WeekdayKeys[Min(hits)][2]
                 diff == day_num - Weekday(ref_time)
                 days_ahead == IF diff <= 0 THEN diff + 7 ELSE diff
             IN  AddThenReplace(ref_time, TdDays(days_ahead), 9, 0)

\* TimeParser._parse_specific_day
ParseSpecificDay(s, ref_time) ==
    IF Contains(s, "today") THEN Replace(ref_time, 9, 0)
    ELSE IF Contains(s, "tomorrow") \/ Contains(s, "tmrw") \/ Contains(s, "tom")
         THEN ParseTomorrow(s, ref_time)
    ELSE IF Contains(s, "day after tomorrow") \/ Contains(s, "overmorrow")
         THEN AddThenReplace(ref_time, TdDays(2), 9, 0)
    ELSE IF Contains(s, "next week") THEN AddThenReplace(ref_time, TdDays(7), 9, 0)
    ELSE IF Contains(s, "weekend") THEN ParseWeekend(ref_time)
    ELSE ParseWeekdayName(s, ref_time)

\* one way for r'(\d{1,2}):?(\d{2})?\s*(am|pm)' to match from position j: the hour
\* takes hlen digits, the colon and the minute group are taken or not; \s* is
\* greedy. ok tells whether that way matches (need_period: am|pm is mandatory)
ClockWay(s, j, hlen, colon, mins, need_period) ==
    LET c == j + hlen
        a == IF colon THEN c + 1 ELSE c
        b == IF mins THEN a + 2 ELSE a
        p == SpaceRunEnd(s, b)
        period == IF StartsAt(s, p, "am") THEN "am"
                  ELSE IF StartsAt(s, p, "pm") THEN "pm" ELSE ""
        ok == /\ \A k \in j..(c - 1) : IsDigit(At(s, k))
              /\ colon => At(s, c) = ":"
              /\ mins => IsDigit(At(s, a)) /\ IsDigit(At(s, a + 1))
              /\ need_period => period # ""
    IN  [ok |-> ok,
         hour |-> IF ok THEN ParseInt(SubSeq(s, j, c - 1)) ELSE 0,
         minute |-> IF ok /\ mins THEN ParseInt(SubSeq(s, a, a + 1)) ELSE 0,
         period |-> period]

\* the ways in the order the regex engine tries them: greedy first
ClockWays == <<
    <<2, TRUE, TRUE>>, <<2, TRUE, FALSE>>, <<2, FALSE, TRUE>>, <<2, FALSE, FALSE>>,
    <<1, TRUE, TRUE>>, <<1, TRUE, FALSE>>, <<1, FALSE, TRUE>>, <<1, FALSE, FALSE>> >>

ClockWayAt(s, j, k, need_period) ==
    ClockWay(s, j, ClockWays[k][1], ClockWays[k][2], ClockWays[k][3], need_period)

\* whether the clock pattern matches from position j
ClockMatchesAt(s, j, need_period) ==
    \E k \in 1..Len(ClockWays) : ClockWayAt(s, j, k, need_period).ok

\* the groups of the match from position j: the first way that matches
ClockGroupsAt(s, j, need_period) ==
    ClockWayAt(s, j, Min({ k \in 1..Len(ClockWays) : ClockWayAt(s, j, k, need_period).ok }),
               need_period)

\* match starts of r'at (\d{1,2}):?(\d{2})?\s*(am|pm)?'
AtClockMatches(s) ==
    { i \in 1..Len(s) : StartsAt(s, i, "at ") /\ ClockMatchesAt(s, i + 3, FALSE) }

\* match starts of r'(\d{1,2}):?(\d{2})?\s*(am|pm)'
BareClockMatches(s) == { i \in 1..Len(s) : ClockMatchesAt(s, i, TRUE) }

\* the conversion to a 24-hour hour
To24Hour(hour, period) ==
    IF period = "pm" /\ hour # 12 THEN hour + 12
    ELSE IF period = "am" /\ hour = 12 THEN 0
    ELSE hour

\* the roll-over with "target_time < ref_time": a target equal to the reference
\* is returned as it is
NextOccurrenceNotStrict(g, ref_time) ==
    LET target_time == Replace(ref_time, To24Hour(g.hour, g.period), g.minute)
    IN  IF target_time.kind # "ok" THEN target_time
        ELSE IF DtLeq(target_time.dt, ref_time) /\ target_time.dt # ref_time
        THEN Add(target_time.dt, TdDays(1))
        ELSE target_time

\* target_time = ref_time.replace(...); if target_time <= ref_time: += 1 day
NextOccurrence(g, ref_time) ==
    LET target_time == Replace(ref_time, To24Hour(g.hour, g.period), g.minute)
    IN  IF target_time.kind # "ok" THEN target_time
        ELSE IF DtLeq(target_time.dt, ref_time) THEN Add(target_time.dt, TdDays(1))
        ELSE target_time

\* TimeParser._parse_time_of_day
ParseTimeOfDay(s, ref_time) ==
    IF AtClockMatches(s) # {}
    THEN NextOccurrence(ClockGroupsAt(s, Min(AtClockMatches(s)) + 3, FALSE), ref_time)
    ELSE IF BareClockMatches(s) # {}
    THEN NextOccurrence(ClockGroupsAt(s, Min(BareClockMatches(s)), TRUE), ref_time)
    ELSE None

\* TimeParser._parse_combined
ParseCombined(s, ref_time) ==
    LET day_result == ParseSpecificDay(s, ref_time)
    IN  IF day_result.kind = "raise" THEN day_result
        ELSE IF day_result.kind = "ok" /\ AtClockMatches(s) # {}
        THEN LET g == ClockGroupsAt(s, Min(AtClockMatches(s)) + 3, FALSE)
             IN  Replace(day_result.dt, To24Hour(g.hour, g.period), g.minute)
        ELSE None

\* "if result: return result": a datetime is returned, None falls through to
\* the step given as rest, an exception propagates
OrElse(result, rest) == IF result.kind = "none" THEN rest ELSE result

\* TimeParser.parse
TimeParserParse(text, ref_time) ==
    LET s == Strip(Lower(text))
    IN  OrElse(ParseRelative(s, ref_time),
        OrElse(ParseSpecificDay(s, ref_time),
        OrElse(ParseTimeOfDay(s, ref_time),
               ParseCombined(s, ref_time))))

\* date.year, date.month and date.day of a day ordinal (the proleptic Gregorian
\* calendar of datetime: ordinal 1 is 1 January of year 1)
DAYS_IN_MONTH == <<31, 28, 31, 30, 31, 30, 31, 31, 30, 31, 30, 31>>

IsLeap(year) == year % 4 = 0 /\ (year % 100 # 0 \/ year % 400 = 0)

DaysInMonth(year, month) ==
    IF month = 2 /\ IsLeap(year) THEN 29 ELSE DAYS_IN_MONTH[month]

DaysBeforeYear(year) ==
    LET y == year - 1 IN y * 365 + (y \div 4) - (y \div 100) + (y \div 400)

RECURSIVE DaysBeforeMonth(_, _)
DaysBeforeMonth(year, month) ==
    IF month = 1 THEN 0
    ELSE DaysBeforeMonth(year, month - 1) + DaysInMonth(year, month - 1)

YearOf(ordinal) ==
    LET guess == ((ordinal - 1) * 400) \div 146097 + 1
    IN  IF DaysBeforeYear(guess + 1) < ordinal THEN guess + 1
        ELSE IF DaysBeforeYear(guess) < ordinal THEN guess
        ELSE guess - 1

MonthOf(ordinal) ==
    LET year == YearOf(ordinal)
        n == ordinal - DaysBeforeYear(year)
    IN  CHOOSE m \in 1..12 :
            DaysBeforeMonth(year, m) < n /\ n <= DaysBeforeMonth(year, m) + DaysInMonth(year, m)

DayOfMonth(ordinal) ==
    ordinal - DaysBeforeYear(YearOf(ordinal)) - DaysBeforeMonth(YearOf(ordinal), MonthOf(ordinal))

\* strftime: %A, %B, %d (two digits), %Y, %I (two digits, 12-hour), %M, %p
DAY_NAMES == <<"Monday", "Tuesday", "Wednesday", "Thursday", "Friday", "Saturday", "Sunday">>

MONTH_NAMES == <<
    "January", "February", "March", "April", "May", "June", "July", "August",
    "September", "October", "November", "December" >>

RECURSIVE IntToStr(_)
\* str(n) for n >= 0
IntToStr(n) ==
    IF n < 10 THEN At(Digits, n + 1)
    ELSE IntToStr(n \div 10) \o At(Digits, (n % 10) + 1)

ZeroPad(n, width) ==
    LET t == IntToStr(n)
    IN  IF Len(t) >= width THEN t ELSE SubSeq("0000", 1, width - Len(t)) \o t

\* dt.strftime('%I:%M %p')
StrftimeClock(dt) ==
    LET h == IF dt.hour % 12 = 0 THEN 12 ELSE dt.hour % 12
    IN  ZeroPad(h, 2) \o ":" \o ZeroPad(dt.minute, 2) \o " "
            \o (IF dt.hour < 12 THEN "AM" ELSE "PM")

\* dt.strftime('%B %d, %Y')
StrftimeDate(dt) ==
    MONTH_NAMES[MonthOf(dt.day)] \o " " \o ZeroPad(DayOfMonth(dt.day), 2) \o ", "
        \o ZeroPad(YearOf(dt.day), 4)

\* TimeParser.format_datetime(dt), with the value of datetime.now() as now_; the
\* wall clock is years away from datetime.max, so now + timedelta(days=7) exists
FormatDatetime(dt, now_) ==
    IF dt.day = now_.day THEN "today at " \o StrftimeClock(dt)
    ELSE IF dt.day = now_.day + 1 THEN "tomorrow at " \o StrftimeClock(dt)
    ELSE IF dt.day < now_.day + 7
         THEN DAY_NAMES[Weekday(dt) + 1] \o " at " \o StrftimeClock(dt)
    ELSE StrftimeDate(dt) \o " at " \o StrftimeClock(dt)

(***************************************************************************)
(* Worksheet rows (services/google_sheets.py)                              *)
(* A row dict is a sequence of <<column name, value>> pairs in insertion   *)
(* order, one pair per key.                                                *)
(***************************************************************************)

\* col in row
HasKey(row, col) == \E i \in 1..Len(row) : row[i][1] = col

\* row.get(col, "")
RowGet(row, col) ==
    IF HasKey(row, col) THEN row[CHOOSE i \in 1..Len(row) : row[i][1] = col][2] ELSE ""

\* row_dict[col] = value
RowSet(row, col, value) ==
    IF HasKey(row, col)
    THEN [i \in 1..Len(row) |-> IF row[i][1] = col THEN <<col, value>> ELSE row[i]]
    ELSE Append(row, <<col, value>>)

RECURSIVE RowDictFrom(_, _, _)
\* the loop that builds row_dict: a column enters it when its header is not
\* blank, the row reaches it and its cell is not empty
RowDictFrom(headers, row, idx) ==
    IF idx < 1 THEN << >>
    ELSE LET before == RowDictFrom(headers, row, idx - 1)
         IN  IF /\ headers[idx] # "" /\ Strip(headers[idx]) # ""
                /\ idx <= Len(row)
                /\ row[idx] # ""
             THEN RowSet(before, Strip(headers[idx]), row[idx])
             ELSE before

RowDict(headers, row) == RowDictFrom(headers, row, Len(headers))

RECURSIVE SheetRows(_, _, _)
\* the loop over data_rows: empty rows and rows without a kept value are dropped
SheetRows(headers, all_values, k) ==
    IF k > Len(all_values) THEN << >>
    ELSE LET row == all_values[k]
             row_dict == RowDict(headers, row)
         IN  IF (\A i \in 1..Len(row) : row[i] = "") \/ row_dict = << >>
             THEN SheetRows(headers, all_values, k + 1)
             ELSE <<row_dict>> \o SheetRows(headers, all_values, k + 1)

\* GoogleSheetsService.get_sheet_data_by_name_or_gid, from worksheet.get_all_values()
SheetData(all_values) ==
    IF Len(all_values) < 2 THEN << >>
    ELSE IF \A i \in 1..Len(all_values[1]) : Strip(all_values[1][i]) = "" THEN << >>
    ELSE SheetRows(all_values[1], all_values, 2)

(***************************************************************************)
(* ShiftReportService (services/shift_report_service.py)                   *)
(***************************************************************************)

METADATA_KEYWORDS == <<"deposit", "method", "bet", "type">>
CATEGORY_KEYWORDS == <<"casino", "slots", "blackjack", "sports", "baccarat">>
METADATA_VALUES == <<"$", "debit", "etransfer">>
SPORTSBOOK_SKIP_VALUES == <<"$", "debit", "etransfer", "rfb", "lowhold">>

\* any(keyword in text for keyword in keywords)
AnyIn(keywords, text) == \E k \in 1..Len(keywords) : Contains(text, keywords[k])

\* text in keywords
IsOneOf(keywords, text) == \E k \in 1..Len(keywords) : keywords[k] = text

\* whether _get_customer_columns keeps a column of the row
IsCustomerColumn(row, col) ==
    LET col_lower == Lower(col)
        col_value == Lower(Strip(RowGet(row, col)))
    IN  /\ ~AnyIn(METADATA_KEYWORDS, col_lower)
        /\ ~IsOneOf(CATEGORY_KEYWORDS, col_lower)
        /\ col_value # ""
        /\ ~AnyIn(METADATA_VALUES, col_value)

RECURSIVE FilterCustomerColumns(_, _)
FilterCustomerColumns(row, k) ==
    IF k > Len(row) THEN << >>
    ELSE (IF IsCustomerColumn(row, row[k][1]) THEN <<row[k][1]>> ELSE << >>)
         \o FilterCustomerColumns(row, k + 1)

\* ShiftReportService._get_customer_columns
GetCustomerColumns(row) == FilterCustomerColumns(row, 1)

\* whether the column gives the row's sportsbook name
IsSportsbookCell(row, col) ==
    LET value == Strip(RowGet(row, col))
    IN  /\ ~AnyIn(METADATA_KEYWORDS, Lower(col))
        /\ ~AnyIn(SPORTSBOOK_SKIP_VALUES, Lower(value))
        /\ value # ""

RECURSIVE SportsbookNameFrom(_, _)
\* the loop over list(row.keys())[:6], from the k-th key on: the first value
\* that looks like a sportsbook is returned
SportsbookNameFrom(row, k) ==
    IF k > Len(row) \/ k > 6 THEN "Unknown"
    ELSE IF IsSportsbookCell(row, row[k][1]) THEN Strip(row[k][2])
    ELSE SportsbookNameFrom(row, k + 1)

\* ShiftReportService._get_sportsbook_name
GetSportsbookName(row) == SportsbookNameFrom(row, 1)

RECURSIVE CurrentBySportsbookFrom(_, _)
\* the lookup built over current_data: a later row replaces an earlier one
CurrentBySportsbookFrom(data, k) ==
    IF k < 1 THEN << >>
    ELSE LET sportsbook == GetSportsbookName(data[k])
             before == CurrentBySportsbookFrom(data, k - 1)
         IN  IF sportsbook # "" /\ sportsbook # "Unknown"
             THEN RowSet(before, sportsbook, data[k])
             ELSE before

RECURSIVE CurrentBySportsbookFirstWins(_)
\* the lookup keeping the first current row of a sportsbook
CurrentBySportsbookFirstWins(data) ==
    IF data = << >> THEN << >>
    ELSE LET sportsbook == GetSportsbookName(data[Len(data)])
             before == CurrentBySportsbookFirstWins(SubSeq(data, 1, Len(data) - 1))
         IN  IF sportsbook # "" /\ sportsbook # "Unknown" /\ ~HasKey(before, sportsbook)
             THEN RowSet(before, sportsbook, data[Len(data)])
             ELSE before

CurrentBySportsbook(data) == CurrentBySportsbookFrom(data, Len(data))

\* ChangeReport("unknown"): the report before any change is recorded
EmptyReport ==
    [ran |-> TRUE,
     completions |-> << >>,
     vip_flags |-> << >>,
     help_needed |-> << >>,
     customers_updated |-> {},
     all_changes |-> << >>]

\* _detect_changes with only "done" counted as a completion
RecordChangeDoneOnly(rep, change) ==
    [rep EXCEPT
        !.customers_updated = @ \cup {change.customer},
        !.all_changes = Append(@, change),
        !.completions = IF change.new_status = "done" THEN Append(@, change) ELSE @,
        !.vip_flags = IF change.new_status = "vip" THEN Append(@, change) ELSE @,
        !.help_needed = IF change.new_status = "help" THEN Append(@, change) ELSE @]

\* the change recorded at the head of all_changes
RecordChangeAtFront(rep, change) ==
    [rep EXCEPT
        !.customers_updated = @ \cup {change.customer},
        !.all_changes = <<change>> \o @,
        !.completions = IF change.new_status \in {"done", "complete"}
                        THEN Append(@, change) ELSE @,
        !.vip_flags = IF change.new_status = "vip" THEN Append(@, change) ELSE @,
        !.help_needed = IF change.new_status = "help" THEN Append(@, change) ELSE @]

\* the body of "if old_status != new_status": the change is recorded and
\* appended to each bucket its new status belongs to
RecordChange(rep, change) ==
    [rep EXCEPT
        !.customers_updated = @ \cup {change.customer},
        !.all_changes = Append(@, change),
        !.completions = IF change.new_status \in {"done", "complete"}
                        THEN Append(@, change) ELSE @,
        !.vip_flags = IF change.new_status = "vip" THEN Append(@, change) ELSE @,
        !.help_needed = IF change.new_status = "help" THEN Append(@, change) ELSE @]

\* the cell comparison without .strip().lower()
CompareCellRaw(rep, sportsbook, customer, baseline_row, current_row) ==
    LET old_status == RowGet(baseline_row, customer)
        new_status == RowGet(current_row, customer)
    IN  IF old_status # new_status
        THEN RecordChange(rep, [sportsbook |-> sportsbook, customer |-> customer,
                                old_status |-> old_status, new_status |-> new_status])
        ELSE rep

\* the comparison of one customer's cell of a baseline row and its current row
CompareCell(rep, sportsbook, customer, baseline_row, current_row) ==
    LET old_status == Lower(Strip(RowGet(baseline_row, customer)))
        new_status == Lower(Strip(RowGet(current_row, customer)))
    IN  IF old_status # new_status
        THEN RecordChange(rep, [sportsbook |-> sportsbook, customer |-> customer,
                                old_status |-> old_status, new_status |-> new_status])
        ELSE rep

RECURSIVE CompareColumns(_, _, _, _, _, _)
\* the loop over customer_columns, from the k-th column on
CompareColumns(rep, sportsbook, baseline_row, current_row, customer_columns, k) ==
    IF k > Len(customer_columns) THEN rep
    ELSE CompareColumns(
             CompareCell(rep, sportsbook, customer_columns[k], baseline_row, current_row),
             sportsbook, baseline_row, current_row, customer_columns, k + 1)

\* the loop body reading a missing current row as an empty row
CompareRowMissingAsBlank(rep, baseline_row, current_by_sportsbook, customer_columns) ==
    LET sportsbook == GetSportsbookName(baseline_row)
        sportsbook_clean == Strip(RStripChar(Lower(sportsbook), ":"))
        current_row ==
            IF HasKey(current_by_sportsbook, sportsbook)
            THEN RowGet(current_by_sportsbook, sportsbook) ELSE << >>
    IN  IF IsOneOf(CATEGORY_KEYWORDS, sportsbook_clean) THEN rep
        ELSE CompareColumns(rep, sportsbook, baseline_row, current_row, customer_columns, 1)

\* the body of the loop over baseline_data: category rows and rows without a
\* current row of the same sportsbook are skipped
CompareRow(rep, baseline_row, current_by_sportsbook, customer_columns) ==
    LET sportsbook == GetSportsbookName(baseline_row)
        sportsbook_clean == Strip(RStripChar(Lower(sportsbook), ":"))
        current_row == RowGet(current_by_sportsbook, sportsbook)
    IN  IF IsOneOf(CATEGORY_KEYWORDS, sportsbook_clean) THEN rep
        ELSE IF ~HasKey(current_by_sportsbook, sportsbook) \/ current_row = << >> THEN rep
        ELSE CompareColumns(rep, sportsbook, baseline_row, current_row, customer_columns, 1)

RECURSIVE CompareRows(_, _, _, _, _)
\* the loop over baseline_data, from the k-th row on
CompareRows(rep, baseline, current_by_sportsbook, customer_columns, k) ==
    IF k > Len(baseline) THEN rep
    ELSE CompareRows(
             CompareRow(rep, baseline[k], current_by_sportsbook, customer_columns),
             baseline, current_by_sportsbook, customer_columns, k + 1)

\* _detect_changes reading an empty current snapshot as every row emptied
DetectChangesEmptyCurrentAsBlank(baseline, current) ==
    IF baseline = << >> THEN EmptyReport
    ELSE LET emptied == [k \in 1..Len(baseline) |-> <<baseline[k][1]>>]
             cur == IF current = << >> THEN emptied ELSE current
         IN  CompareRows(EmptyReport, baseline, CurrentBySportsbook(cur),
                         GetCustomerColumns(baseline[1]), 1)

\* ShiftReportService._detect_changes
DetectChanges(baseline, current) ==
    IF baseline = << >> \/ current = << >> THEN EmptyReport
    ELSE CompareRows(EmptyReport, baseline, CurrentBySportsbook(current),
                     GetCustomerColumns(baseline[1]), 1)

(***************************************************************************)
(* ReminderScheduler (services/scheduler.py): the status classifier        *)
(***************************************************************************)

RECURSIVE StrRemove(_, _)
\* s.replace(ch, '') for a one-character ch
StrRemove(s, ch) ==
    IF s = "" THEN ""
    ELSE (IF At(s, 1) = ch THEN "" ELSE At(s, 1)) \o StrRemove(SubSeq(s, 2, Len(s)), ch)

\* s.isdigit(), for text in ASCII
IsDigitStr(s) == s # "" /\ \A i \in 1..Len(s) : IsDigit(At(s, i))

\* _get_action_type with the amounts of the list only, without the isdigit rule
GetActionTypeListedAmountsOnly(status) ==
    IF status = "" THEN "signup"
    ELSE LET status_lower == Lower(status)
         IN  IF status_lower \in {"verify", "verifyfix"} THEN "verification"
             ELSE IF status_lower \in {"deposit", "signed up ready"} THEN "deposit"
             ELSE IF status_lower \in
                        {"ready", "1k", "1000", "500", "2000", "2500", "3000", "5000"}
                  THEN "wager"
             ELSE IF Contains(status_lower, "week") THEN "progress"
             ELSE IF status_lower = "vip" THEN "vip"
             ELSE "other"

\* ReminderScheduler._get_action_type
GetActionType(status) ==
    IF status = "" THEN "signup"
    ELSE LET status_lower == Lower(status)
         IN  IF status_lower \in {"verify", "verifyfix"} THEN "verification"
             ELSE IF status_lower \in {"deposit", "signed up ready"} THEN "deposit"
             ELSE IF status_lower \in
                        {"ready", "1k", "1000", "500", "2000", "2500", "3000", "5000"}
                  THEN "wager"
             ELSE IF IsDigitStr(StrRemove(StrRemove(StrRemove(status_lower, "k"), "$"), ","))
                  THEN "wager"
             ELSE IF Contains(status_lower, "week") THEN "progress"
             ELSE IF status_lower = "vip" THEN "vip"
             ELSE "other"

\* no cell handled yet
NotClassified == [state |-> "notrun", status |-> "", action_type |-> ""]

\* the loop body comparing the raw value, not the stripped one, with complete
\* and done
ClassifyCellUnstripped(value) ==
    LET status == Strip(value)
    IN  IF Lower(value) \in {"complete", "done"}
        THEN [state |-> "skipped", status |-> status, action_type |-> ""]
        ELSE [state |-> "classified", status |-> status, action_type |-> GetActionType(status)]

\* what the loop body of _analyze_tracking_data does with the raw value of a
\* customer cell: strip it, skip it when it is complete or done, otherwise
\* call _get_action_type on it
ClassifyCell(value) ==
    LET status == Strip(value)
    IN  IF Lower(status) \in {"complete", "done"}
        THEN [state |-> "skipped", status |-> status, action_type |-> ""]
        ELSE [state |-> "classified", status |-> status, action_type |-> GetActionType(status)]

(***************************************************************************)
(* ReminderScheduler (services/scheduler.py): _analyze_tracking_data       *)
(* The result maps customer -> action type -> list of tasks; a dict is a   *)
(* sequence of <<key, value>> pairs in insertion order. calls lists the    *)
(* arguments of the calls of _get_action_type, in order.                   *)
(* CATEGORY_KEYWORDS and metadata_keywords of the scheduler are the lists  *)
(* CATEGORY_KEYWORDS and METADATA_KEYWORDS above.                          *)
(***************************************************************************)

ANALYZER_SKIP_VALUES == <<"$", "debit", "etransfer", "rfb", "lowhold", "baccarat">>

\* any(text.startswith(keyword) for keyword in keywords)
AnyStartsWith(keywords, text) == \E k \in 1..Len(keywords) : StartsWith(text, keywords[k])

\* list(first_row.keys())
AllColumns(first_row) == [i \in 1..Len(first_row) |-> first_row[i][1]]

\* whether the loop over all_columns keeps the column as a customer column
IsAnalyzerCustomerColumn(col) ==
    LET col_lower == Lower(col)
    IN  /\ ~AnyIn(METADATA_KEYWORDS, col_lower)
        /\ ~(IsOneOf(CATEGORY_KEYWORDS, col_lower) \/ AnyStartsWith(CATEGORY_KEYWORDS, col_lower))

\* customer_columns
AnalyzerCustomerColumns(all_columns) == SelectSeq(all_columns, IsAnalyzerCustomerColumn)

\* the details of a row before its columns are read (sportsbook None is "")
NoDetails == [sportsbook |-> "", deposit |-> "", method |-> "", bet_type |-> ""]

\* one step of the loop over all_columns[:6]
ReadDetail(details, row, col) ==
    LET value == Strip(RowGet(row, col))
        col_lower == Lower(col)
    IN  IF value = "" THEN details
        ELSE IF Contains(col_lower, "deposit") /\ Contains(value, "$")
             THEN [details EXCEPT !.deposit = value]
        ELSE IF Contains(col_lower, "method") THEN [details EXCEPT !.method = value]
        ELSE IF Contains(col_lower, "bet") \/ Contains(col_lower, "type")
             THEN [details EXCEPT !.bet_type = value]
        ELSE IF details.sportsbook = "" /\ ~AnyIn(ANALYZER_SKIP_VALUES, Lower(value))
             THEN [details EXCEPT !.sportsbook = value]
        ELSE details

RECURSIVE ReadDetails(_, _, _)
\* the loop over all_columns[:6], after its first k columns
ReadDetails(row, all_columns, k) ==
    IF k < 1 THEN NoDetails
    ELSE ReadDetail(ReadDetails(row, all_columns, k - 1), row, all_columns[k])

\* the row's details
RowDetails(row, all_columns) ==
    ReadDetails(row, all_columns, IF Len(all_columns) < 6 THEN Len(all_columns) ELSE 6)

\* the category test by equality only, as _detect_changes has it
IsCategoryRowExactOnly(sportsbook) ==
    IsOneOf(CATEGORY_KEYWORDS, Strip(RStripChar(Lower(sportsbook), ":")))

\* whether the row is skipped as a category row
IsCategoryRow(sportsbook) ==
    LET sportsbook_clean == Strip(RStripChar(Lower(sportsbook), ":"))
    IN  \/ IsOneOf(CATEGORY_KEYWORDS, sportsbook_clean)
        \/ AnyStartsWith(CATEGORY_KEYWORDS, sportsbook_clean)

\* the task put at the head of its list instead of its end
AddTaskAtHead(tasks, customer, action_type, task) ==
    LET with_customer ==
            IF HasKey(tasks, customer) THEN tasks ELSE Append(tasks, <<customer, << >> >>)
        groups == RowGet(with_customer, customer)
        with_type ==
            IF HasKey(groups, action_type) THEN groups
            ELSE Append(groups, <<action_type, << >> >>)
        tasks_of_type == <<task>> \o RowGet(with_type, action_type)
    IN  RowSet(with_customer, customer, RowSet(with_type, action_type, tasks_of_type))

\* tasks_by_customer[customer][action_type].append(task), each dict entry being
\* made first when it is missing
AddTask(tasks, customer, action_type, task) ==
    LET with_customer ==
            IF HasKey(tasks, customer) THEN tasks ELSE Append(tasks, <<customer, << >> >>)
        groups == RowGet(with_customer, customer)
        with_type ==
            IF HasKey(groups, action_type) THEN groups
            ELSE Append(groups, <<action_type, << >> >>)
        tasks_of_type == Append(RowGet(with_type, action_type), task)
    IN  RowSet(with_customer, customer, RowSet(with_type, action_type, tasks_of_type))

\* the outcome before the call, and the outcome for no rows: return {}
NotAnalyzed == [ran |-> FALSE, tasks_by_customer |-> << >>, calls |-> << >>]
EmptyAnalysis == [ran |-> TRUE, tasks_by_customer |-> << >>, calls |-> << >>]

\* the body of the loop over customer_columns for one customer of a kept row
AnalyzeCell(acc, row, details, customer) ==
    LET c == ClassifyCell(RowGet(row, customer))
    IN  IF c.state = "skipped" THEN acc
        ELSE [acc EXCEPT
                 !.calls = Append(@, c.status),
                 !.tasks_by_customer =
                     AddTask(@, customer, c.action_type,
                             [sportsbook |-> details.sportsbook,
                              deposit |-> details.deposit,
                              bet_type |-> details.bet_type,
                              status |-> c.status])]

RECURSIVE AnalyzeCells(_, _, _, _, _)
\* the loop over customer_columns, from the j-th customer on
AnalyzeCells(acc, row, details, customer_columns, j) ==
    IF j > Len(customer_columns) THEN acc
    ELSE AnalyzeCells(AnalyzeCell(acc, row, details, customer_columns[j]),
                      row, details, customer_columns, j + 1)

\* the body of the loop over data for one row
AnalyzeRow(acc, row, all_columns, customer_columns) ==
    LET details == RowDetails(row, all_columns)
    IN  IF details.sportsbook = "" THEN acc
        ELSE IF IsCategoryRow(details.sportsbook) THEN acc
        ELSE AnalyzeCells(acc, row, details, customer_columns, 1)

RECURSIVE AnalyzeRows(_, _, _, _, _)
\* the loop over data, from the k-th row on
AnalyzeRows(acc, rows, all_columns, customer_columns, k) ==
    IF k > Len(rows) THEN acc
    ELSE AnalyzeRows(AnalyzeRow(acc, rows[k], all_columns, customer_columns),
                     rows, all_columns, customer_columns, k + 1)

\* ReminderScheduler._analyze_tracking_data
AnalyzeTrackingData(rows) ==
    IF rows = << >> THEN EmptyAnalysis
    ELSE LET all_columns == AllColumns(rows[1])
         IN  AnalyzeRows(EmptyAnalysis, rows, all_columns,
                         AnalyzerCustomerColumns(all_columns), 1)

(***************************************************************************)
(* Specification of the parser: parse applied to a text and a reference    *)
(***************************************************************************)

\* the largest of the small counts N written in "in N <unit>"
MaxN == 2

RECURSIVE ToDigits(_)
\* str(n) for n >= 0: what a user types for the count
ToDigits(n) ==
    IF n < 10 THEN At(Digits, n + 1)
    ELSE ToDigits(n \div 10) \o At(Digits, (n % 10) + 1)

\* the counts tried: small ones, a day's worth of hours, and one whose sum with
\* any reference date lies beyond the largest datetime
Counts == (0..MaxN) \cup {24, 90, 10000000}

UnitWords == {"hour", "hours", "minutes", "days", "weeks", "months"}

InTexts == { "in " \o ToDigits(n) \o " " \o u : n \in Counts, u \in UnitWords }

FromNowTexts == { ToDigits(n) \o " " \o u \o " from now" : n \in Counts, u \in UnitWords }

DayTexts == {
    "today", "tomorrow", "tmrw", "tom", "tomorrow morning", "tomorrow afternoon",
    "tomorrow night", "day after tomorrow", "overmorrow", "next week", "weekend",
    "monday", "mon", "tuesday", "tue", "tues", "wednesday", "wed", "thursday", "thu",
    "thur", "thurs", "friday", "fri", "saturday", "sat", "sunday", "sun" }

\* clock expressions with "at": in range, and out of range
AtTexts == {"at 3pm", "at 10am", "at 15:00", "at 12am", "at 12pm", "at 3:30pm", "at 0930"}
BadAtTexts == {"at 25", "at 13pm", "at 3:75"}
BareClockTexts == {"5pm", "12:15 am", "123pm"}

\* clock-only texts "at H[:MM][am|pm]" and "H[:MM]am|pm" with a valid hour and
\* minute: hours 0..23 without a period, 1..12 with one
ClockMinutes == {<<"", 0>>, <<":00", 0>>, <<":05", 5>>, <<":30", 30>>, <<":59", 59>>}
ClockCases ==
    { [text |-> pre \o ToDigits(h) \o m[1] \o p, hour |-> h, minute |-> m[2], period |-> p] :
          pre \in {"at ", ""}, h \in 0..23, m \in ClockMinutes, p \in {"", "am", "pm"} }
ValidClockCases ==
    { c \in ClockCases :
          /\ c.period # "" => c.hour \in 1..12
          /\ c.period = "" => StartsWith(c.text, "at ") }
ClockOnlyTexts == { c.text : c \in ValidClockCases }

\* a second cue after a relative phrase
OtherCues == {" monday", " tomorrow", " at 3pm", " at 25"}

\* the texts parse is applied to
Texts ==
    InTexts \cup FromNowTexts
    \cup { r \o c : r \in InTexts, c \in OtherCues }
    \cup { "friday " \o r : r \in InTexts }
    \cup DayTexts
    \cup AtTexts \cup BadAtTexts \cup BareClockTexts \cup ClockOnlyTexts
    \cup { d \o " " \o c : d \in DayTexts, c \in {"at 3pm", "at 10am", "at 15:00", "at 12am", "at 25"} }
    \cup { "whenever", "", "soon", " Tomorrow At 3PM ", "Monday at 10AM", " In 2 Hours ",
           "remind me at noon" }

\* reference instants: a week of dates around 2025-12-16 (ordinal 739601, a
\* Tuesday) and times of day before, at and after the default times
RefDays == 739601..739607
RefTimes == {
    <<0, 0, 0, 0>>, <<9, 0, 0, 0>>, <<12, 30, 0, 0>>, <<13, 5, 7, 1>>,
    <<15, 0, 0, 0>>, <<23, 59, 59, 999999>> }
Refs == { DateTime(d, t[1], t[2], t[3], t[4]) : d \in RefDays, t \in RefTimes }

\* no report yet
NoReport ==
    [ran |-> FALSE,
     completions |-> << >>,
     vip_flags |-> << >>,
     help_needed |-> << >>,
     customers_updated |-> {},
     all_changes |-> << >>]

\* how a row is read, before it is read: the customer columns of the first
\* row, the row's primary label, whether the row is skipped for lack of a label
\* and whether it is skipped as a category header
NotViewed ==
    [ran |-> FALSE, columns |-> << >>, label |-> "", unlabeled |-> FALSE, category |-> FALSE]

\* no call of cancel_reminder
NoCancel == [reminder_id |-> 0, username |-> "", returned |-> FALSE]

\* no tool call yet
NoToolInput == [target_name |-> "", reminder_text |-> "", time_expression |-> ""]

\* no run of a shift report job yet
NoRun == [job |-> "", processed |-> << >>]

\* no call of _send_employee_reminder yet
NoReminder == [employee_username |-> "", sent |-> FALSE, signups_sent |-> FALSE]

\* the parts of the state a specification does not use stay as they start
ParseIdle == time_str = "" /\ reference_time = NoDT /\ parse_result = NotRun
FormatIdle == now = NoDT /\ formatted = ""
DiffIdle == baseline_data = << >> /\ current_data = << >> /\ report = NoReport
StatusIdle == cell = "" /\ classification = NotClassified
AnalyzeIdle == tracking_data = << >> /\ analysis = NotAnalyzed
SnapshotIdle ==
    snapshots = << >> /\ today = 0 /\ runs = 0 /\ last_run = NoRun
DeliveryIdle ==
    /\ reminders = << >> /\ scheduler_now = 0 /\ pass_list = << >> /\ pass_pos = 0
    /\ passes = 0 /\ deliveries = << >> /\ calls_ended = {}
    /\ cancelled_ok = {} /\ last_cancel = NoCancel
ToolIdle ==
    /\ tool_input = NoToolInput /\ parse_now = NoDT /\ check_now = NoDT
    /\ insert_raises = FALSE /\ tool_reply = "" /\ inserted = << >>
AttributeIdle ==
    /\ first_data_row = << >> /\ sheet_row = << >>
    /\ detector_view = NotViewed /\ analyzer_view = NotViewed
DailyIdle ==
    blank_reminder_file = << >> /\ daily_now = 0 /\ last_reminder = NoReminder

InitParse ==
    /\ DailyIdle
    /\ SnapshotIdle
    /\ DeliveryIdle
    /\ ToolIdle
    /\ AttributeIdle
    /\ time_str \in Texts
    /\ reference_time \in Refs
    /\ parse_result = NotRun
    /\ FormatIdle
    /\ DiffIdle
    /\ StatusIdle
    /\ AnalyzeIdle

\* the call TimeParser.parse(time_str, reference_time)
Parse ==
    /\ parse_result = NotRun
    /\ parse_result' = TimeParserParse(time_str, reference_time)
    /\ UNCHANGED <<time_str, reference_time, notParse>>

NextParse == Parse

SpecParse == InitParse /\ [][NextParse]_vars

(***************************************************************************)
(* Properties of the parser                                                *)
(***************************************************************************)

ParseDone == parse_result.kind # "notrun"

\* the instant days whole days and seconds seconds after dt, with no upper limit
ExactSum(dt, days, seconds) ==
    LET total == SecondsOfDay(dt) + seconds
        rest == total % 86400
    IN  DateTime(dt.day + days + (total \div 86400),
                 rest \div 3600, (rest % 3600) \div 60, rest % 60, dt.microsecond)

\* ref + n * unit for the unit a word names (a month counts 30 days)
RefPlus(ref, n, word) ==
    CASE word \in {"hour", "hours"} -> ExactSum(ref, n \div 24, (n % 24) * 3600)
      [] word \in {"minute", "minutes"} -> ExactSum(ref, n \div 1440, (n % 1440) * 60)
      [] word \in {"day", "days"} -> ExactSum(ref, n, 0)
      [] word \in {"week", "weeks"} -> ExactSum(ref, 7 * n, 0)
      [] word \in {"month", "months"} -> ExactSum(ref, 30 * n, 0)

\* the hour and minute an in-range "at" expression states
ClockMeaning ==
    [c \in AtTexts |->
        CASE c = "at 3pm" -> <<15, 0>>
          [] c = "at 10am" -> <<10, 0>>
          [] c = "at 15:00" -> <<15, 0>>
          [] c = "at 12am" -> <<0, 0>>
          [] c = "at 12pm" -> <<12, 0>>
          [] c = "at 3:30pm" -> <<15, 30>>
          [] c = "at 0930" -> <<9, 30>>]

\* C1: a text naming a day together with an explicit clock time "at H[:MM][am|pm]"
\* parses to the date the named-day rule gives, at the stated clock time
\* ("tomorrow at 3pm" is the day after the reference at 15:00), not at 09:00.
C1_DayWithClockTime ==
    ParseDone =>
        \A d \in DayTexts, c \in AtTexts :
            time_str = d \o " " \o c =>
                /\ parse_result.kind = "ok"
                /\ parse_result.dt =
                       DateTime(ParseSpecificDay(d, reference_time).dt.day,
                                ClockMeaning[c][1], ClockMeaning[c][2], 0, 0)

\* the units of claim C2
C2Units == {"hour", "hours", "minutes", "days", "weeks"}

\* C2: "in N unit" for a non-negative N and a unit of hours, minutes, days or
\* weeks parses to exactly ref + N * unit; N = 0 gives ref itself, as a success.
C2_RelativeIsExact ==
    ParseDone =>
        \A n \in Counts, u \in C2Units :
            time_str = "in " \o ToDigits(n) \o " " \o u =>
                parse_result = Some(RefPlus(reference_time, n, u))

\* The statement of C2 for the counts whose sum is a date up to 31 December 9999.
C2_RelativeIsExactInRange ==
    ParseDone =>
        \A n \in Counts, u \in C2Units :
            /\ time_str = "in " \o ToDigits(n) \o " " \o u
            /\ RefPlus(reference_time, n, u).day <= MaxOrdinal
            => parse_result = Some(RefPlus(reference_time, n, u))

\* C7: parse ends with a timestamp or with None and never raises, also for a
\* clock expression whose hour or minute is out of range; a text that matches
\* no family ("whenever") gives None.
C7_NeverRaises ==
    ParseDone =>
        /\ parse_result.kind \in {"ok", "none"}
        /\ time_str = "whenever" => parse_result = None

\* C8: the relative-duration family is tried first, so a text holding
\* "in N <unit>" together with another cue (a weekday name, "tomorrow", a clock
\* time) parses to the reference plus the duration.
C8_RelativeWinsOverOtherCues ==
    ParseDone =>
        \A n \in Counts, u \in UnitWords, c \in OtherCues :
            LET r == "in " \o ToDigits(n) \o " " \o u
            IN  time_str \in {r \o c, "friday " \o r} =>
                    parse_result = Some(RefPlus(reference_time, n, u))

\* The statement of C8 for the durations whose sum is a date up to 31 December 9999.
C8_RelativeWinsInRange ==
    ParseDone =>
        \A n \in Counts, u \in UnitWords, c \in OtherCues :
            LET r == "in " \o ToDigits(n) \o " " \o u
            IN  /\ time_str \in {r \o c, "friday " \o r}
                /\ RefPlus(reference_time, n, u).day <= MaxOrdinal
                => parse_result = Some(RefPlus(reference_time, n, u))

\* the weekday names and abbreviations, with Monday as day 0
WeekdayNames ==
    {"monday", "mon", "tuesday", "tue", "tues", "wednesday", "wed", "thursday", "thu",
     "thur", "thurs", "friday", "fri", "saturday", "sat", "sunday", "sun"}

WeekdayNumber(w) ==
    CASE StartsWith(w, "mon") -> 0
      [] StartsWith(w, "tue") -> 1
      [] StartsWith(w, "wed") -> 2
      [] StartsWith(w, "thu") -> 3
      [] StartsWith(w, "fri") -> 4
      [] StartsWith(w, "sat") -> 5
      [] StartsWith(w, "sun") -> 6

\* C9: a weekday name W parses to 09:00 on the first date strictly after the
\* reference date whose weekday is W, 1 to 7 days ahead; when the reference
\* date is itself a W the result is 7 days ahead, never the reference date.
C9_WeekdayIsNextOccurrence ==
    ParseDone /\ time_str \in WeekdayNames =>
        /\ parse_result.kind = "ok"
        /\ parse_result.dt.day \in (reference_time.day + 1)..(reference_time.day + 7)
        /\ (parse_result.dt.day - 1) % 7 = WeekdayNumber(time_str)
        /\ parse_result.dt = DateTime(parse_result.dt.day, 9, 0, 0, 0)
        /\ Weekday(reference_time) = WeekdayNumber(time_str)
               => parse_result.dt.day = reference_time.day + 7

\* a weekday name parsed on a reference date of that weekday: a week ahead
C9_Witness ==
    /\ ParseDone
    /\ time_str = "tuesday"
    /\ Weekday(reference_time) = 1
    /\ parse_result = Some(DateTime(reference_time.day + 7, 9, 0, 0, 0))

\* C10: "day after tomorrow" parses to the reference date + 2 days at 09:00.
C10_DayAfterTomorrow ==
    ParseDone /\ time_str = "day after tomorrow" =>
        parse_result = Some(DateTime(reference_time.day + 2, 9, 0, 0, 0))

\* the 24-hour hour a clock case states: 12am is 0, 12pm is 12, other pm hours
\* add 12
StatedHour(c) ==
    IF c.period = "am" THEN (IF c.hour = 12 THEN 0 ELSE c.hour)
    ELSE IF c.period = "pm" THEN (IF c.hour = 12 THEN 12 ELSE c.hour + 12)
    ELSE c.hour

\* dt is strictly after ref
StrictlyAfter(dt, ref) == ~DtLeq(dt, ref)

\* C11: a clock-only text ("at H[:MM][am|pm]" or "H[:MM]am|pm", hour and minute
\* valid) parses to the stated hour and minute after 12-hour conversion, with
\* zero seconds, strictly after the reference and at most 24 hours after it: on
\* the reference date if that time is strictly after the reference, on the next
\* date otherwise.
C11_ClockOnlyIsNextOccurrence ==
    ParseDone =>
        \A c \in ValidClockCases :
            time_str = c.text =>
                LET same_day == DateTime(reference_time.day, StatedHour(c), c.minute, 0, 0)
                    next_day == DateTime(reference_time.day + 1, StatedHour(c), c.minute, 0, 0)
                IN  /\ parse_result.kind = "ok"
                    /\ parse_result.dt =
                           IF StrictlyAfter(same_day, reference_time) THEN same_day ELSE next_day
                    /\ StrictlyAfter(parse_result.dt, reference_time)
                    /\ DtLeq(parse_result.dt, ExactSum(reference_time, 1, 0))

\* "at 3pm" asked at 15:00:00 sharp: the result is 15:00 on the next date
C11_Witness ==
    /\ ParseDone
    /\ time_str = "at 3pm"
    /\ reference_time = DateTime(reference_time.day, 15, 0, 0, 0)
    /\ parse_result = Some(DateTime(reference_time.day + 1, 15, 0, 0, 0))

\* the first Saturday on or after the date with ordinal day
FirstSaturdayFrom(day) == CHOOSE d \in day..(day + 6) : (d - 1) % 7 = 5

\* C12: "weekend" parses to 10:00 on a Saturday: the first Saturday on or after
\* the reference date, except that on a Saturday with reference hour > 12 it is
\* the Saturday 7 days later.
C12_WeekendIsSaturdayAtTen ==
    ParseDone /\ time_str = "weekend" =>
        LET saturday ==
                IF (reference_time.day - 1) % 7 = 5 /\ reference_time.hour > 12
                THEN reference_time.day + 7
                ELSE FirstSaturdayFrom(reference_time.day)
        IN  /\ parse_result = Some(DateTime(saturday, 10, 0, 0, 0))
            /\ (parse_result.dt.day - 1) % 7 = 5

\* "weekend" asked on a Saturday afternoon: the Saturday a week later
C12_Witness ==
    /\ ParseDone
    /\ time_str = "weekend"
    /\ (reference_time.day - 1) % 7 = 5
    /\ reference_time.hour = 13
    /\ parse_result = Some(DateTime(reference_time.day + 7, 10, 0, 0, 0))

\* C13: "N <unit> from now", for a non-negative N and a unit of hours, minutes,
\* days, weeks or months, succeeds and gives what "in N <unit>" gives for the
\* same reference.
C13_FromNowEqualsIn ==
    ParseDone =>
        \A n \in Counts, u \in UnitWords :
            time_str = ToDigits(n) \o " " \o u \o " from now" =>
                /\ parse_result.kind = "ok"
                /\ parse_result = TimeParserParse("in " \o ToDigits(n) \o " " \o u, reference_time)

(***************************************************************************)
(* Specification of the display of a parsed time: parse, then              *)
(* format_datetime applied to its result                                   *)
(***************************************************************************)

\* texts whose results fall into each branch of format_datetime
FormatTexts == {
    "tomorrow", "today", "tomorrow night", "in 2 hours", "in 24 hours", "in 3 days",
    "in 90 days", "next week", "monday", "weekend", "at 3pm", "at 12am", "12:15 am" }

InitFormat ==
    /\ DailyIdle
    /\ SnapshotIdle
    /\ DeliveryIdle
    /\ ToolIdle
    /\ AttributeIdle
    /\ time_str \in FormatTexts
    /\ reference_time \in Refs
    /\ parse_result = NotRun
    /\ FormatIdle
    /\ DiffIdle
    /\ StatusIdle
    /\ AnalyzeIdle

\* the call TimeParser.format_datetime(parse_result), made while the wall clock
\* shows n
Format ==
    /\ parse_result.kind = "ok"
    /\ formatted = ""
    /\ \E n \in Refs :
           /\ now' = n
           /\ formatted' = FormatDatetime(parse_result.dt, n)
    /\ UNCHANGED notFormat

NextFormat == Parse \/ Format

SpecFormat == InitFormat /\ [][NextFormat]_vars

\* C14: format_datetime applied to parse("tomorrow", ref) reports
\* "tomorrow at 9:00 AM", the day label being relative to the date of ref.
C14_TomorrowFormatsAsTomorrow ==
    formatted # "" /\ time_str = "tomorrow" => formatted = "tomorrow at 9:00 AM"

(***************************************************************************)
(* Specification of the change detector: _detect_changes applied to the    *)
(* rows fetched from a baseline worksheet and from a current worksheet     *)
(***************************************************************************)

\* the largest number of data rows of a worksheet
MaxRows == 2

\* the header row of the tracking worksheet
Header == <<"Sportsbook", "Deposit", "David", "Jenny", "Mike">>

\* the data rows a worksheet is made of: three states of the Fanduel row and
\* two states of a category-header row
DataRows == {
    <<"Fanduel", "$1000", "verify", "done", "ready">>,
    <<"Fanduel", "$1000", "", " Done ", "help">>,
    <<"Fanduel", "$1000", "vip", "Complete", "">>,
    <<"CASINO:", "", "verify", "", "">>,
    <<"CASINO:", "", "done", "", "">> }

RECURSIVE SeqsUpTo(_, _)
\* the sequences over S of length at most n
SeqsUpTo(S, n) ==
    IF n = 0 THEN { << >> }
    ELSE LET shorter == SeqsUpTo(S, n - 1)
         IN  shorter \cup { Append(q, x) : q \in shorter, x \in S }

\* worksheet.get_all_values(): the header row and up to MaxRows data rows
Worksheets == { <<Header>> \o rows : rows \in SeqsUpTo(DataRows, MaxRows) }

\* the snapshots fetched from these worksheets
Snapshots == { SheetData(w) : w \in Worksheets }

InitDiff ==
    /\ DailyIdle
    /\ SnapshotIdle
    /\ DeliveryIdle
    /\ ToolIdle
    /\ AttributeIdle
    /\ ParseIdle
    /\ FormatIdle
    /\ StatusIdle
    /\ AnalyzeIdle
    /\ baseline_data \in Snapshots
    /\ current_data \in Snapshots
    /\ report = NoReport

\* the call self._detect_changes(baseline['snapshot_data'], current_data)
Detect ==
    /\ report = NoReport
    /\ report' = DetectChanges(baseline_data, current_data)
    /\ UNCHANGED <<baseline_data, current_data, notDiff>>

NextDiff == Detect

SpecDiff == InitDiff /\ [][NextDiff]_vars

(***************************************************************************)
(* Properties of the change detector                                       *)
(***************************************************************************)

\* the subjects of the worksheet: its customer columns
Subjects == {"David", "Jenny", "Mike"}

\* a cell trimmed and lower-cased
Normalised(v) == Strip(Lower(v))

Max(S) == CHOOSE x \in S : \A y \in S : x >= y

\* the rows of the current snapshot that carry a primary label
CurrentRowsLabelled(label) ==
    { j \in 1..Len(current_data) : GetSportsbookName(current_data[j]) = label }

\* a baseline row of this label has a current row with the same primary label
HasCurrentRow(label) == label # "Unknown" /\ CurrentRowsLabelled(label) # {}

\* the current row a baseline row of this label is compared with: the last one
CurrentRowOf(label) == current_data[Max(CurrentRowsLabelled(label))]

\* a primary label that is a category header
IsCategoryLabel(label) ==
    Strip(RStripChar(Lower(label), ":")) \in {"casino", "slots", "blackjack", "sports", "baccarat"}

\* the records of a list, as a set
Records(list) == { list[k] : k \in 1..Len(list) }

\* the report holds a change record of the subject for a baseline row of this
\* label and this (normalised) old status
HasRecord(label, subject, old_status) ==
    \E c \in Records(report.all_changes) :
        c.sportsbook = label /\ c.customer = subject /\ c.old_status = old_status

\* C3: a snapshot compared with an identical copy of itself, rows that share a
\* primary label included, gives no change and no customer updated.
C3_IdenticalSnapshotsNoChange ==
    report.ran /\ current_data = baseline_data =>
        /\ report.all_changes = << >>
        /\ report.customers_updated = {}

\* C4: a subject whose cell is empty in a baseline row and "vip" in the
\* matching current row gets a change record in all_changes and in vip_flags,
\* whichever position the row has in the baseline, the first included.
C4_BlankToVipIsEscalation ==
    report.ran =>
        \A i \in 1..Len(baseline_data) :
            LET label == GetSportsbookName(baseline_data[i])
            IN  HasCurrentRow(label) =>
                    \A subject \in Subjects :
                        /\ RowGet(baseline_data[i], subject) = ""
                        /\ Normalised(RowGet(CurrentRowOf(label), subject)) = "vip"
                        => \E c \in Records(report.all_changes) \cap Records(report.vip_flags) :
                               /\ c.sportsbook = label
                               /\ c.customer = subject
                               /\ c.old_status = ""
                               /\ c.new_status = "vip"

InBucket(statuses) == SelectSeq(report.all_changes, LAMBDA c : c.new_status \in statuses)

\* C6: a change record is in completions exactly when its new status is "done"
\* or "complete", in vip_flags exactly when it is "vip", in help_needed exactly
\* when it is "help"; a record of another new status is in all_changes only, and
\* every record's subject is in customers_updated.
C6_BucketsByNewStatus ==
    report.ran =>
        /\ report.completions = InBucket({"done", "complete"})
        /\ report.vip_flags = InBucket({"vip"})
        /\ report.help_needed = InBucket({"help"})
        /\ \A c \in Records(report.all_changes) : c.customer \in report.customers_updated

\* a report with a completion into "complete" and a change into a status of no
\* bucket, whose subject is nevertheless among the customers updated
C6_Witness ==
    /\ report.ran
    /\ \E c \in Records(report.completions) : c.new_status = "complete"
    /\ \E c \in Records(report.all_changes) :
           /\ c.new_status \notin {"done", "complete", "vip", "help"}
           /\ c \notin Records(report.completions) \cup Records(report.vip_flags)
                           \cup Records(report.help_needed)
           /\ c.customer \in report.customers_updated

(***************************************************************************)
(* Specification of the status classifier: the analyzer's handling of one  *)
(* customer cell                                                           *)
(***************************************************************************)

\* status texts as typed into a sheet
StatusTokens == {
    "", "verify", "verifyfix", "Verify", "VERIFYFIX", "verify fix", "verified",
    "deposit", "Deposit", "deposits", "signed up ready", "Signed Up Ready", "signed up",
    "ready", "READY", "ready 1k", "already",
    "1k", "1K", "1000", "500", "2000", "2500", "3000", "5000",
    "750", "$1,000", "$2k", "2.5k", "10kk", "1 000", "k", "$", ",", "k$,",
    "week 2", "Week 3", "2 weeks", "weekly vip", "1k week",
    "vip", "VIP", "vip 2",
    "pending", "help", "other",
    "done", "Done", "DONE", "complete", "Complete", "completed", "done 1k" }

\* the same with blanks around them, as cells hold them
StatusCells ==
    { pre \o t \o post : pre \in {"", " "}, t \in StatusTokens, post \in {"", " ", "  "} }

InitStatus ==
    /\ DailyIdle
    /\ SnapshotIdle
    /\ DeliveryIdle
    /\ ToolIdle
    /\ AttributeIdle
    /\ ParseIdle
    /\ FormatIdle
    /\ DiffIdle
    /\ AnalyzeIdle
    /\ cell \in StatusCells
    /\ classification = NotClassified

\* the analyzer reads the cell
Classify ==
    /\ classification = NotClassified
    /\ classification' = ClassifyCell(cell)
    /\ UNCHANGED <<cell, notStatus>>

NextStatus == Classify

SpecStatus == InitStatus /\ [][NextStatus]_vars

\* the lower-cased, trimmed status of the cell
TrimmedLower == Strip(Lower(cell))

\* t, after removing every k, $ and comma, is not empty and all digits
IsAmountToken(t) ==
    LET kept == { i \in 1..Len(t) : At(t, i) \notin {"k", "$", ","} }
    IN  kept # {} /\ \A i \in kept : At(t, i) \in DigitChars

CanonicalAmounts == {"1k", "1000", "500", "2000", "2500", "3000", "5000"}

\* the category the rules give, read in their order
RuleCategory(t) ==
    CASE t = "" -> "signup"
      [] t \in {"verify", "verifyfix"} -> "verification"
      [] t \in {"deposit", "signed up ready"} -> "deposit"
      [] t = "ready" \/ t \in CanonicalAmounts \/ IsAmountToken(t) -> "wager"
      [] Contains(t, "week") -> "progress"
      [] t = "vip" -> "vip"
      [] OTHER -> "other"

AnalyzerRows == {
    <<"Fanduel", "$1000", "verify", "done", "1k">>,
    <<"Bet365", "$500", " Done ", "verify", "">>,
    <<"CASINO:", "", "verify", "", "">>,
    <<"Sportsbet", "$250", "ready", "COMPLETE ", "week 2">>,
    <<"", "$1000", "vip", "Complete", "">>,
    <<"Betway", "1000", "ready", "verifyfix", "done">> }

TrackingSnapshots ==
    { SheetData(<<Header>> \o rows) : rows \in SeqsUpTo(AnalyzerRows, MaxRows) }

\* the snapshots of a shift report: nothing fetched, or one row
ShiftSnapshots ==
    { << >>, SheetData(<<Header, <<"Fanduel", "$1000", "verify", "done", "1k">> >>) }

InitAnalyze ==
    /\ DailyIdle
    /\ SnapshotIdle
    /\ DeliveryIdle
    /\ ToolIdle
    /\ AttributeIdle
    /\ ParseIdle
    /\ FormatIdle
    /\ StatusIdle
    /\ tracking_data \in TrackingSnapshots
    /\ analysis = NotAnalyzed
    /\ baseline_data \in ShiftSnapshots
    /\ current_data \in ShiftSnapshots
    /\ report = NoReport

\* the call self._analyze_tracking_data(data)
Analyze ==
    /\ analysis = NotAnalyzed
    /\ analysis' = AnalyzeTrackingData(tracking_data)
    /\ UNCHANGED <<tracking_data, notAnalyze>>

NextAnalyze == Analyze \/ Detect

SpecAnalyze == InitAnalyze /\ [][NextAnalyze]_vars

(***************************************************************************)
(* Properties of the analyzer                                              *)
(***************************************************************************)

\* the tasks of the result, each with its customer and action type
AllTasks ==
    LET t == analysis.tasks_by_customer
    IN  UNION { UNION { { [customer |-> t[i][1], action_type |-> t[i][2][g][1],
                           task |-> t[i][2][g][2][p]] : p \in 1..Len(t[i][2][g][2]) } :
                        g \in 1..Len(t[i][2]) } :
                i \in 1..Len(t) }

\* a status that reads done or complete in any letter case, blanks around it
\* or not
IsTerminal(status) == Lower(Strip(status)) \in {"done", "complete"}

\* C17: no task of the analyzer's result, under any customer or action type,
\* has a raw status reading done or complete in any letter case or with blanks
\* around it, and _get_action_type is never called with such a status.
C17_NoTerminalStatusInOutput ==
    analysis.ran =>
        /\ \A e \in AllTasks : ~IsTerminal(e.task.status)
        /\ \A k \in 1..Len(analysis.calls) : ~IsTerminal(analysis.calls[k])

\* a kept row with the cell " Done " for one customer and an open cell for
\* another has been analyzed
C17_Witness ==
    /\ analysis.ran
    /\ \E k \in 1..Len(tracking_data) :
           /\ RowGet(tracking_data[k], "Sportsbook") = "Bet365"
           /\ RowGet(tracking_data[k], "David") = " Done "
    /\ RowGet(tracking_data[1], "David") # ""
    /\ \E e \in AllTasks : e.task.sportsbook = "Bet365" /\ e.customer = "Jenny"

\* the label, lower-cased with trailing colons stripped, is a category keyword
\* or starts with one
LabelIsCategory(label) ==
    LET t == RStripChar(Lower(label), ":")
    IN  \E k \in 1..Len(CATEGORY_KEYWORDS) :
            t = CATEGORY_KEYWORDS[k] \/ StartsWith(t, CATEGORY_KEYWORDS[k])

\* C18: no task of the analyzer's result has a primary label that, lower-cased
\* with a trailing colon stripped, equals or starts with casino, slots,
\* blackjack, sports or baccarat.
C18_NoCategoryRowInOutput ==
    analysis.ran => \A e \in AllTasks : ~LabelIsCategory(e.task.sportsbook)

\* a snapshot with the row "Sportsbet", which has open cells, and another row
\* that gives tasks has been analyzed
C18_Witness ==
    /\ analysis.ran
    /\ \E k \in 1..Len(tracking_data) :
           /\ RowGet(tracking_data[k], "Sportsbook") = "Sportsbet"
           /\ RowGet(tracking_data[k], "David") = "ready"
    /\ \E e \in AllTasks : e.customer = "David"

\* the place of a column in the sheet header
HeaderPlace(col) == CHOOSE i \in 1..Len(Header) : Header[i] = col

\* the customers of the result mapping, in its order
ResultCustomers ==
    [i \in 1..Len(analysis.tasks_by_customer) |-> analysis.tasks_by_customer[i][1]]

\* the customer columns the analyzer reads in the snapshot
TrackedCustomers == AnalyzerCustomerColumns(AllColumns(tracking_data[1]))

\* the k-th row of the snapshot is kept and has an open cell for the customer
IsOpenAt(k, customer) ==
    LET label == RowDetails(tracking_data[k], AllColumns(tracking_data[1])).sportsbook
    IN  /\ label # ""
        /\ ~LabelIsCategory(label)
        /\ ~IsTerminal(RowGet(tracking_data[k], customer))

RECURSIVE TasksInRowOrder(_, _, _)
\* the tasks of a customer and action type, read off the rows from the k-th on
TasksInRowOrder(customer, action_type, k) ==
    IF k > Len(tracking_data) THEN << >>
    ELSE LET row == tracking_data[k]
             details == RowDetails(row, AllColumns(tracking_data[1]))
             status == Strip(RowGet(row, customer))
         IN  (IF IsOpenAt(k, customer) /\ RuleCategory(Strip(Lower(status))) = action_type
              THEN << [sportsbook |-> details.sportsbook, deposit |-> details.deposit,
                       bet_type |-> details.bet_type, status |-> status] >>
              ELSE << >>)
             \o TasksInRowOrder(customer, action_type, k + 1)

\* within each customer and action type the tasks are in the order of their rows
TasksFollowRows ==
    LET t == analysis.tasks_by_customer
    IN  \A i \in 1..Len(t) : \A g \in 1..Len(t[i][2]) :
            t[i][2][g][2] = TasksInRowOrder(t[i][1], t[i][2][g][1], 1)

\* C19: the result keeps the sheet order: the customers of the result mapping
\* are in the order of their columns in the sheet header, and within each
\* customer and action type the tasks are in the order of their rows.
C19_SheetOrder ==
    analysis.ran =>
        /\ \A i, j \in 1..Len(ResultCustomers) :
               i < j => HeaderPlace(ResultCustomers[i]) < HeaderPlace(ResultCustomers[j])
        /\ TasksFollowRows

\* where a customer's first open cell is met when the rows are read in order
\* and, in a row, the customer columns in header order
FirstOpen(customer) ==
    LET k == Min({ r \in 1..Len(tracking_data) : IsOpenAt(r, customer) })
    IN  k * (Len(Header) + 1) + HeaderPlace(customer)

\* The statement of C19 with the customers in the order in which their first
\* open cell is met, reading the rows in order and each row in header order.
C19_FirstOpenOrder ==
    analysis.ran /\ tracking_data # << >> =>
        /\ \A i \in 1..Len(ResultCustomers) :
               \E r \in 1..Len(tracking_data) : IsOpenAt(r, ResultCustomers[i])
        /\ \A i \in 1..Len(TrackedCustomers) :
               (\E r \in 1..Len(tracking_data) : IsOpenAt(r, TrackedCustomers[i]))
                   => \E j \in 1..Len(ResultCustomers) : ResultCustomers[j] = TrackedCustomers[i]
        /\ \A i, j \in 1..Len(ResultCustomers) :
               i < j => FirstOpen(ResultCustomers[i]) < FirstOpen(ResultCustomers[j])
        /\ TasksFollowRows

\* a later column's customer comes first in the result, and a list holds the
\* tasks of two rows
C19_Witness ==
    /\ analysis.ran
    /\ ResultCustomers = <<"Jenny", "David">>
    /\ \E e \in AllTasks :
           e.customer = "Jenny" /\ Len(TasksInRowOrder("Jenny", e.action_type, 1)) = 2

\* C20: when the baseline snapshot or the current snapshot is empty,
\* _detect_changes returns a report whose completions, vip_flags, help_needed,
\* customers_updated and all_changes are empty; _analyze_tracking_data returns
\* an empty mapping for an empty snapshot.
C20_EmptySnapshotsGiveEmptyResults ==
    /\ report.ran /\ (baseline_data = << >> \/ current_data = << >>) =>
           /\ report.completions = << >>
           /\ report.vip_flags = << >>
           /\ report.help_needed = << >>
           /\ report.customers_updated = {}
           /\ report.all_changes = << >>
    /\ analysis.ran /\ tracking_data = << >> => analysis.tasks_by_customer = << >>

\* a report made from a baseline with a row and an empty current snapshot, and
\* an analysis of an empty snapshot
C20_Witness ==
    /\ report.ran
    /\ baseline_data # << >>
    /\ current_data = << >>
    /\ report.all_changes = << >>
    /\ analysis.ran
    /\ tracking_data = << >>
    /\ analysis.tasks_by_customer = << >>

(***************************************************************************)
(* Specification of the matching of rows by the change detector:           *)
(* _detect_changes applied to snapshots whose rows carry several labels,   *)
(* some of them more than once                                             *)
(***************************************************************************)

MatchRows == {
    <<"Fanduel", "$1000", "verify", "done", "ready">>,
    <<"Fanduel", "$1000", "vip", " Done ", "help">>,
    <<"Bet365", "$500", "ready", "help", "vip">>,
    <<"Bet365", "$500", "done", "help", "">>,
    <<"Betway", "$250", "verify", "verify", "complete">> }

MatchSnapshots == { SheetData(<<Header>> \o rows) : rows \in SeqsUpTo(MatchRows, MaxRows) }

InitMatch ==
    /\ DailyIdle
    /\ SnapshotIdle
    /\ DeliveryIdle
    /\ ToolIdle
    /\ AttributeIdle
    /\ ParseIdle
    /\ FormatIdle
    /\ StatusIdle
    /\ AnalyzeIdle
    /\ baseline_data \in MatchSnapshots
    /\ current_data \in MatchSnapshots
    /\ report = NoReport

NextMatch == Detect

SpecMatch == InitMatch /\ [][NextMatch]_vars

\* the primary labels of the rows of a snapshot
LabelsOf(rows) == { GetSportsbookName(rows[k]) : k \in 1..Len(rows) }

\* the rows of a snapshot whose primary label is among labels
RowsLabelled(rows, labels) == SelectSeq(rows, LAMBDA r : GetSportsbookName(r) \in labels)

\* every record the report holds, in any list
AnyRecords ==
    Records(report.all_changes) \cup Records(report.completions)
        \cup Records(report.vip_flags) \cup Records(report.help_needed)

\* C21: rows without a counterpart add nothing: every record of the report, in
\* all_changes or a bucket, and every customer updated belongs to a primary
\* label that occurs in both snapshots, and the report is the one made without
\* the current rows whose label no baseline row has and without the baseline
\* rows (after the first, which gives the columns) whose label no current row
\* has.
C21_UnmatchedRowsAddNothing ==
    report.ran =>
        LET both == LabelsOf(baseline_data) \cap LabelsOf(current_data)
        IN  /\ \A c \in AnyRecords : c.sportsbook \in both
            /\ report.customers_updated \subseteq
                   { c.customer : c \in { r \in AnyRecords : r.sportsbook \in both } }
            /\ report = DetectChanges(baseline_data, RowsLabelled(current_data, both))
            /\ baseline_data # << >> =>
                   report = DetectChanges(
                                <<Head(baseline_data)>> \o RowsLabelled(Tail(baseline_data), both),
                                current_data)

\* a report with changes, made from a baseline with a row the current snapshot
\* has no counterpart of and a current snapshot with a row the baseline has no
\* counterpart of
C21_Witness ==
    /\ report.ran
    /\ report.all_changes # << >>
    /\ "Betway" \in LabelsOf(baseline_data) \ LabelsOf(current_data)
    /\ "Bet365" \in LabelsOf(current_data) \ LabelsOf(baseline_data)

\* the current snapshot without the rows that a later row of the same primary
\* label follows
LastRowsOnly(rows) ==
    LET kept == { j \in 1..Len(rows) :
                    \A l \in (j + 1)..Len(rows) :
                        GetSportsbookName(rows[l]) # GetSportsbookName(rows[j]) }
        Pick[j \in 0..Len(rows)] ==
            IF j = 0 THEN << >>
            ELSE IF j \in kept THEN Append(Pick[j - 1], rows[j]) ELSE Pick[j - 1]
    IN  Pick[Len(rows)]

\* C22: when several current rows share a primary label, a baseline row of that
\* label is compared with the last of them and with no other: every record's
\* new status is the cell of the last current row of its label, and the report
\* is the one made from the current snapshot without the earlier rows.
C22_LastCurrentRowWins ==
    report.ran =>
        /\ \A c \in Records(report.all_changes) :
               c.new_status = Normalised(RowGet(CurrentRowOf(c.sportsbook), c.customer))
        /\ report = DetectChanges(baseline_data, LastRowsOnly(current_data))

\* two current rows labelled Fanduel whose David cells differ, and a record of
\* David for Fanduel carrying the cell of the second
C22_Witness ==
    /\ report.ran
    /\ Len(current_data) = 2
    /\ GetSportsbookName(current_data[1]) = "Fanduel"
    /\ GetSportsbookName(current_data[2]) = "Fanduel"
    /\ RowGet(current_data[1], "David") = "verify"
    /\ RowGet(current_data[2], "David") = "vip"
    /\ \E c \in Records(report.all_changes) :
           c.sportsbook = "Fanduel" /\ c.customer = "David" /\ c.new_status = "vip"

\* the customer columns in the order of the worksheet's columns
SubjectOrder == <<"David", "Jenny", "Mike">>

\* the record of a baseline row's cell that differs from the current row's
ExpectedRecord(label, subject, old_status, new_status) ==
    [sportsbook |-> label, customer |-> subject,
     old_status |-> old_status, new_status |-> new_status]

\* what a baseline row adds for a customer column, given the current row it is
\* compared with: a record when the two cells differ
ExpectedOfCell(label, subject, old_status, new_status) ==
    IF old_status = new_status THEN << >>
    ELSE <<ExpectedRecord(label, subject, old_status, new_status)>>

RECURSIVE ExpectedOfRow(_, _, _, _, _)
\* what a baseline row adds, from the k-th column of the worksheet's customer
\* columns on, for the columns the detector compares
ExpectedOfRow(baseline_row, label, current_row, columns, k) ==
    IF k > Len(SubjectOrder) THEN << >>
    ELSE (IF SubjectOrder[k] \in columns
          THEN ExpectedOfCell(label, SubjectOrder[k],
                              Normalised(RowGet(baseline_row, SubjectOrder[k])),
                              Normalised(RowGet(current_row, SubjectOrder[k])))
          ELSE << >>)
         \o ExpectedOfRow(baseline_row, label, current_row, columns, k + 1)

\* what a baseline row of a label adds: nothing when it is a category header or
\* no current row has its label, else its changes against the last such row
ExpectedOfLabelled(baseline_row, label, matches, columns) ==
    IF IsCategoryLabel(label) \/ label = "Unknown" \/ matches = {} THEN << >>
    ELSE ExpectedOfRow(baseline_row, label, current_data[Max(matches)], columns, 1)

RECURSIVE ExpectedFromRow(_, _, _)
\* the changes of the baseline rows from the k-th on: row by row, and within a
\* row column by column
ExpectedFromRow(current_labels, columns, k) ==
    IF k > Len(baseline_data) THEN << >>
    ELSE LET label == GetSportsbookName(baseline_data[k])
         IN  ExpectedOfLabelled(baseline_data[k], label,
                                { j \in 1..Len(current_data) : current_labels[j] = label },
                                columns)
             \o ExpectedFromRow(current_labels, columns, k + 1)

ExpectedChanges ==
    IF baseline_data = << >> THEN << >>
    ELSE ExpectedFromRow([j \in 1..Len(current_data) |-> GetSportsbookName(current_data[j])],
                         Records(GetCustomerColumns(baseline_data[1])), 1)

RECURSIVE IsSubSequence(_, _)
\* sub is what is left of list after removing some of its elements
IsSubSequence(sub, list) ==
    IF sub = << >> THEN TRUE
    ELSE IF list = << >> THEN FALSE
    ELSE IF Head(sub) = Head(list) THEN IsSubSequence(Tail(sub), Tail(list))
    ELSE IsSubSequence(sub, Tail(list))

\* C24: customers_updated is exactly the set of the subjects of the records of
\* all_changes; completions, vip_flags and help_needed are sub-sequences of
\* all_changes with no record in common; and all_changes lists its records by
\* baseline row, then by customer column.
C24_ReportIsConsistent ==
    report.ran =>
        /\ report.customers_updated = { c.customer : c \in Records(report.all_changes) }
        /\ IsSubSequence(report.completions, report.all_changes)
        /\ IsSubSequence(report.vip_flags, report.all_changes)
        /\ IsSubSequence(report.help_needed, report.all_changes)
        /\ Records(report.completions) \cap Records(report.vip_flags) = {}
        /\ Records(report.completions) \cap Records(report.help_needed) = {}
        /\ Records(report.vip_flags) \cap Records(report.help_needed) = {}
        /\ report.all_changes = ExpectedChanges

\* a report with changes of two baseline rows and of two columns, two of its
\* buckets filled and a record in no bucket
C24_Witness ==
    /\ report.ran
    /\ \E c, d \in Records(report.all_changes) :
           c.sportsbook # d.sportsbook /\ c.customer # d.customer
    /\ report.completions # << >>
    /\ report.vip_flags # << >>
    /\ \E c \in Records(report.all_changes) :
           c.new_status \notin {"done", "complete", "vip", "help"}
    /\ Cardinality(report.customers_updated) < Len(report.all_changes)

(***************************************************************************)
(* Specification of the reading of rows: the change detector and the       *)
(* analyzer each read the first row of a snapshot for its customer columns *)
(* and a row for its primary label                                         *)
(***************************************************************************)

\* the first cell of a row: sportsbook names, category headers and values
\* that are no name
AttributeLabels ==
    {"Fanduel", "Sportsbet", "CASINO:", " Slots ", "Baccarat Live", "$50 bonus", ""}

\* the deposit cell of a row
AttributeDeposits == {"$1000", "1000", ""}

\* a customer cell of a row
AttributeCells == {"verify", ""}

\* the rows get_all_rows makes of a worksheet row under Header
AttributeRows ==
    { RowDict(Header, <<label, deposit, david, "done", "ready">>) :
        label \in AttributeLabels, deposit \in AttributeDeposits, david \in AttributeCells }

InitAttribute ==
    /\ DailyIdle
    /\ SnapshotIdle
    /\ DeliveryIdle
    /\ ToolIdle
    /\ ParseIdle
    /\ FormatIdle
    /\ DiffIdle
    /\ StatusIdle
    /\ AnalyzeIdle
    /\ first_data_row \in AttributeRows
    /\ sheet_row \in AttributeRows
    /\ detector_view = NotViewed
    /\ analyzer_view = NotViewed

\* _detect_changes: the customer columns of baseline_data[0], and in the loop
\* over the rows the sportsbook name, the rows that reach no current row for
\* being "Unknown" and the test of a category row
DetectorView ==
    /\ ~detector_view.ran
    /\ detector_view' =
           LET sportsbook == GetSportsbookName(sheet_row)
           IN  [ran |-> TRUE,
                columns |-> GetCustomerColumns(first_data_row),
                label |-> sportsbook,
                unlabeled |-> sportsbook = "Unknown",
                category |-> IsOneOf(CATEGORY_KEYWORDS,
                                     Strip(RStripChar(Lower(sportsbook), ":")))]
    /\ UNCHANGED <<first_data_row, sheet_row, analyzer_view, notAttribute>>

\* _analyze_tracking_data: the customer columns of data[0], and in the loop
\* over the rows the sportsbook, "if not sportsbook: continue" and the test of
\* a category row
AnalyzerView ==
    /\ ~analyzer_view.ran
    /\ analyzer_view' =
           LET all_columns == AllColumns(first_data_row)
               sportsbook == RowDetails(sheet_row, all_columns).sportsbook
           IN  [ran |-> TRUE,
                columns |-> AnalyzerCustomerColumns(all_columns),
                label |-> sportsbook,
                unlabeled |-> sportsbook = "",
                category |-> sportsbook # "" /\ IsCategoryRow(sportsbook)]
    /\ UNCHANGED <<first_data_row, sheet_row, detector_view, notAttribute>>

NextAttribute == DetectorView \/ AnalyzerView

SpecAttribute == InitAttribute /\ [][NextAttribute]_vars

\* C25: the change detector attributes a row as the analyzer does: both leave
\* it without a label or both give it the same primary label, and both or
\* neither skip it as a category header.
C25_SameAttribution ==
    detector_view.ran /\ analyzer_view.ran =>
        /\ detector_view.unlabeled = analyzer_view.unlabeled
        /\ ~detector_view.unlabeled => detector_view.label = analyzer_view.label
        /\ detector_view.category = analyzer_view.category

\* C26: the customer columns the change detector derives from a first row are
\* those the analyzer derives from it.
C26_SameCustomerColumns ==
    detector_view.ran /\ analyzer_view.ran =>
        Records(detector_view.columns) = Records(analyzer_view.columns)

(***************************************************************************)
(* AIService._execute_tool (services/ai_service.py): the create_reminder   *)
(* tool, with PermissionManager.resolve_employee_name (utils/permissions)  *)
(***************************************************************************)

\* config.EMPLOYEE_FRIENDLY_NAMES
EMPLOYEE_FRIENDLY_NAMES ==
    << <<"mitchell", "darcmeho">>, <<"granger", "dillongranger22">>,
       <<"ignacio", "ignacioz1313">>, <<"conner", "connersfc">> >>

\* the keys of config.EMPLOYEE_SHEETS
EMPLOYEE_SHEETS == <<"darcmeho", "dillongranger22", "ignacioz1313", "connersfc">>

\* PermissionManager.resolve_employee_name: the username, or "" for None
ResolveEmployeeName(name) ==
    LET name_lower == Strip(Lower(name))
    IN  IF name = "" THEN ""
        ELSE IF HasKey(EMPLOYEE_FRIENDLY_NAMES, name_lower)
             THEN RowGet(EMPLOYEE_FRIENDLY_NAMES, name_lower)
        ELSE IF \E k \in 1..Len(EMPLOYEE_SHEETS) : Lower(EMPLOYEE_SHEETS[k]) = name_lower
             THEN EMPLOYEE_SHEETS[CHOOSE k \in 1..Len(EMPLOYEE_SHEETS) :
                                      /\ Lower(EMPLOYEE_SHEETS[k]) = name_lower
                                      /\ \A j \in 1..(k - 1) :
                                             Lower(EMPLOYEE_SHEETS[j]) # name_lower]
        ELSE ""

\* the user the tool runs for
Requester == "alexthegreat2642"

\* the past check with "<" for "<="
IsInThePastStrictly(reminder_time, clock) == ~DtLeq(clock, reminder_time)

\* "if reminder_time <= datetime.now()"
IsInThePast(reminder_time, clock) == DtLeq(reminder_time, clock)

\* the answer and the row of the create_reminder branch of _execute_tool:
\* kind names the return statement taken, rows what the table gains
ExecuteCreateReminder(input, parse_clock, check_clock, raises) ==
    LET target_name == Strip(input.target_name)
        reminder_text == Strip(input.reminder_text)
        time_expression == Strip(input.time_expression)
        reminder_time == TimeParserParse(time_expression, parse_clock)
        to_self == target_name = "" \/ Lower(target_name) \in {"me", "myself"}
        target_username == IF to_self THEN Requester ELSE ResolveEmployeeName(target_name)
    IN  IF reminder_text = "" THEN [kind |-> "text_required", rows |-> << >>]
        ELSE IF time_expression = "" THEN [kind |-> "time_required", rows |-> << >>]
        ELSE IF reminder_time.kind = "raise" THEN [kind |-> "raised", rows |-> << >>]
        ELSE IF reminder_time.kind = "none" THEN [kind |-> "not_understood", rows |-> << >>]
        ELSE IF target_username = "" THEN [kind |-> "not_recognized", rows |-> << >>]
        ELSE IF IsInThePast(reminder_time.dt, check_clock)
             THEN [kind |-> "in_the_past", rows |-> << >>]
        ELSE IF raises THEN [kind |-> "error_creating", rows |-> << >>]
        ELSE [kind |-> "created",
              rows |-> << [creator_username |-> Requester,
                           target_username |-> target_username,
                           reminder_text |-> reminder_text,
                           reminder_time |-> reminder_time.dt,
                           status |-> "pending"] >>]

\* the time expressions given to the tool
ToolTimeExpressions ==
    {"in 0 hours", "in 2 hours", " In 1 Minutes ", "tomorrow", "at 9am", "at 13:05",
     "soon", "", "at 25"}

\* the people the reminder is for
ToolTargetNames == {"", "Me", "Ignacio", "bob"}

\* the inputs of the tool
ToolInputs ==
    [target_name : ToolTargetNames, reminder_text : {"", "call the bank"},
     time_expression : ToolTimeExpressions]

\* the clock when parse reads it
ToolClocks == { DateTime(739601, t[1], t[2], t[3], t[4]) : t \in RefTimes }

\* how far the clock moves between parse and the check
ToolDelays == {TdMinutes(0), TdMinutes(1), TdHours(2)}

InitTool ==
    /\ DailyIdle
    /\ SnapshotIdle
    /\ DeliveryIdle
    /\ ParseIdle
    /\ FormatIdle
    /\ DiffIdle
    /\ StatusIdle
    /\ AnalyzeIdle
    /\ AttributeIdle
    /\ tool_input \in ToolInputs
    /\ parse_now \in ToolClocks
    /\ check_now \in { Add(parse_now, delay).dt : delay \in ToolDelays }
    /\ insert_raises \in BOOLEAN
    /\ tool_reply = ""
    /\ inserted = << >>

\* _execute_tool("create_reminder", tool_input, ...)
CreateReminder ==
    /\ tool_reply = ""
    /\ LET outcome == ExecuteCreateReminder(tool_input, parse_now, check_now, insert_raises)
       IN  /\ tool_reply' = outcome.kind
           /\ inserted' = inserted \o outcome.rows
    /\ UNCHANGED <<tool_input, parse_now, check_now, insert_raises, notTool>>

NextTool == CreateReminder

SpecTool == InitTool /\ [][NextTool]_vars

\* the tool reaches its past check: text and time are given, the time is
\* understood and the target is the requester or a known employee
ReachesCheck ==
    /\ Strip(tool_input.reminder_text) # ""
    /\ TimeParserParse(Strip(tool_input.time_expression), parse_now).kind = "ok"
    /\ \/ Lower(Strip(tool_input.target_name)) \in {"", "me", "myself"}
       \/ Lower(Strip(tool_input.target_name)) \in {"ignacio", "mitchell", "granger", "conner"}

\* C23: a reminder row is inserted only with a time strictly later than the
\* clock read at the check; a parsed time equal to or earlier than that clock,
\* the result of "in 0 hours" included, is answered with the "in the past"
\* message and no row is inserted.
C23_NoReminderInThePast ==
    tool_reply # "" =>
        /\ \A k \in 1..Len(inserted) :
               /\ DtLeq(check_now, inserted[k].reminder_time)
               /\ inserted[k].reminder_time # check_now
        /\ ReachesCheck
             /\ DtLeq(TimeParserParse(Strip(tool_input.time_expression), parse_now).dt, check_now)
             => tool_reply = "in_the_past" /\ inserted = << >>

\* "in 0 hours" asked and checked at the same instant, answered "in the past"
C23_Witness ==
    /\ tool_reply = "in_the_past"
    /\ tool_input.time_expression = "in 0 hours"
    /\ check_now = parse_now
    /\ inserted = << >>

(***************************************************************************)
(* User reminders: ReminderScheduler.check_user_reminders and              *)
(* _send_user_reminder (services/scheduler.py) against the reminders table *)
(* of ReminderService (services/reminder_service.py), with cancel_reminder *)
(* running between the awaits of a pass                                    *)
(***************************************************************************)

\* the number of rows of the reminders table
MaxReminders == 2

\* the number of passes of check_user_reminders
MaxPasses == 2

\* the last instant of the scheduler's clock
MaxClock == 1

ReminderIds == 1..MaxReminders

\* the rows create_reminder inserts: pending, due at some instant, for a
\* channel the bot finds or does not find
PendingRows ==
    [status : {"pending"}, creator_username : {"alexthegreat2642"},
     target_username : {"ignacioz1313"}, reminder_time : 0..MaxClock,
     channel : {"found", "gone"}]

\* the users that ask for a cancellation
CancelUsers == {"alexthegreat2642", "ignacioz1313", "connersfc"}

InitDelivery ==
    /\ DailyIdle
    /\ SnapshotIdle
    /\ ParseIdle
    /\ FormatIdle
    /\ DiffIdle
    /\ StatusIdle
    /\ AnalyzeIdle
    /\ AttributeIdle
    /\ ToolIdle
    /\ reminders \in [ReminderIds -> PendingRows]
    /\ scheduler_now = 0
    /\ pass_list = << >>
    /\ pass_pos = 0
    /\ passes = 0
    /\ deliveries = [id \in ReminderIds |-> 0]
    /\ calls_ended = {}
    /\ cancelled_ok = {}
    /\ last_cancel = NoCancel

RECURSIVE OrderByTime(_)
\* .order("reminder_time"): the ids by reminder_time, rows of one time by id
OrderByTime(ids) ==
    IF ids = {} THEN << >>
    ELSE LET first == CHOOSE id \in ids :
                          \A other \in ids :
                              \/ reminders[id].reminder_time < reminders[other].reminder_time
                              \/ /\ reminders[id].reminder_time = reminders[other].reminder_time
                                 /\ id <= other
         IN  <<first>> \o OrderByTime(ids \ {first})

\* ReminderService.get_pending_reminders: the pending rows due now, or [] when
\* the query raises
GetPendingReminders(raises) ==
    IF raises THEN << >>
    ELSE OrderByTime({ id \in ReminderIds :
                         /\ reminders[id].status = "pending"
                         /\ reminders[id].reminder_time <= scheduler_now })

\* ReminderService.mark_reminder_sent: the table after it; an update that
\* raises leaves the table as it is
MarkReminderSent(table, reminder_id, raises) ==
    IF raises THEN table ELSE [table EXCEPT ![reminder_id].status = "sent"]

RECURSIVE RunToAwait(_, _, _, _)
\* the loop of check_user_reminders from a place of the list up to the next
\* await: a reminder whose channel is not found is marked sent and its call
\* returns; at a reminder whose channel is found the pass awaits
\* channel.send(message); after the last reminder the pass ends.  The result
\* is the set of the outcomes, one for each way the updates raise or do not.
RunToAwait(table, list, pos, ended) ==
    IF pos > Len(list)
    THEN {[reminders |-> table, pass_pos |-> 0, calls_ended |-> ended]}
    ELSE IF table[list[pos]].channel = "gone"
    THEN UNION { RunToAwait(MarkReminderSent(table, list[pos], raises), list, pos + 1,
                            ended \cup {list[pos]}) : raises \in BOOLEAN }
    ELSE {[reminders |-> table, pass_pos |-> pos, calls_ended |-> ended]}

\* the clock moves on
Tick ==
    /\ scheduler_now < MaxClock
    /\ scheduler_now' = scheduler_now + 1
    /\ calls_ended' = {}
    /\ last_cancel' = NoCancel
    /\ UNCHANGED <<reminders, pass_list, pass_pos, passes, deliveries, cancelled_ok, notDelivery>>

\* check_user_reminders from its start to its first await or its end: the
\* pending list is read once
StartPass ==
    /\ pass_pos = 0
    /\ passes < MaxPasses
    /\ \E raises \in BOOLEAN :
          /\ pass_list' = GetPendingReminders(raises)
          /\ \E outcome \in RunToAwait(reminders, GetPendingReminders(raises), 1, {}) :
                /\ reminders' = outcome.reminders
                /\ pass_pos' = outcome.pass_pos
                /\ calls_ended' = outcome.calls_ended
    /\ passes' = passes + 1
    /\ last_cancel' = NoCancel
    /\ UNCHANGED <<scheduler_now, deliveries, cancelled_ok, notDelivery>>

\* the pass from the end of "await channel.send(message)" to its next await or
\* its end: the message was sent or the send raised, either way the reminder
\* is marked sent, and the loop goes on
EndSend ==
    /\ pass_pos > 0
    /\ LET reminder_id == pass_list[pass_pos]
       IN  /\ \E sent \in BOOLEAN :
                 deliveries' = [deliveries EXCEPT
                                   ![reminder_id] = IF sent THEN @ + 1 ELSE @]
           /\ \E raises \in BOOLEAN :
                 \E outcome \in RunToAwait(MarkReminderSent(reminders, reminder_id, raises),
                                            pass_list, pass_pos + 1, {reminder_id}) :
                     /\ reminders' = outcome.reminders
                     /\ pass_pos' = outcome.pass_pos
                     /\ calls_ended' = outcome.calls_ended
    /\ last_cancel' = NoCancel
    /\ UNCHANGED <<scheduler_now, pass_list, passes, cancelled_ok, notDelivery>>

\* ReminderService.cancel_reminder(reminder_id, username), run between two
\* awaits of the event loop: False when the row is not found, the user is
\* neither creator nor target, or a query raises
CancelReminder ==
    /\ \E reminder_id \in 1..(MaxReminders + 1), username \in CancelUsers, raises \in BOOLEAN :
          IF /\ ~raises
             /\ reminder_id \in ReminderIds
             /\ ~(reminders[reminder_id].creator_username # username
                    /\ reminders[reminder_id].target_username # username)
          THEN /\ reminders' = [reminders EXCEPT ![reminder_id].status = "cancelled"]
               /\ cancelled_ok' = cancelled_ok \cup {reminder_id}
               /\ last_cancel' = [reminder_id |-> reminder_id, username |-> username,
                                  returned |-> TRUE]
          ELSE /\ last_cancel' = [reminder_id |-> reminder_id, username |-> username,
                                  returned |-> FALSE]
               /\ UNCHANGED <<reminders, cancelled_ok>>
    /\ calls_ended' = {}
    /\ UNCHANGED <<scheduler_now, pass_list, pass_pos, passes, deliveries, notDelivery>>

NextDelivery == Tick \/ StartPass \/ EndSend \/ CancelReminder

SpecDelivery == InitDelivery /\ [][NextDelivery]_vars

\* C27: no reminder has its message sent twice, and the reminder a call of
\* _send_user_reminder has handled has the status sent when the call returns.
C27_DeliveredAtMostOnce ==
    /\ \A id \in DOMAIN deliveries : deliveries[id] <= 1
    /\ \A id \in calls_ended : reminders[id].status = "sent"

\* C28: once cancel_reminder has returned True for a reminder, no message of it
\* is sent and its status stays cancelled; and a status becomes cancelled only
\* by a call of cancel_reminder for the reminder's creator or target.
C28_CancelledIsNeverDelivered ==
    [][\A id \in DOMAIN reminders :
          /\ id \in cancelled_ok =>
                 /\ deliveries'[id] = deliveries[id]
                 /\ reminders'[id].status = "cancelled"
          /\ reminders[id].status # "cancelled" /\ reminders'[id].status = "cancelled" =>
                 /\ last_cancel'.reminder_id = id
                 /\ last_cancel'.returned
                 /\ last_cancel'.username \in {reminders[id].creator_username,
                                               reminders[id].target_username}]_vars

(***************************************************************************)
(* The shift report jobs: ShiftReportService.take_baseline_snapshots and   *)
(* generate_shift_report (services/shift_report_service.py) against the    *)
(* sheet_snapshots table of SnapshotRepository                             *)
(***************************************************************************)

\* the number of runs of the two jobs
MaxRuns == 2

\* the number of calendar days
MaxDays == 2

\* what get_employee_sheet gives: a result with "data", a result without, or
\* an exception
FetchOutcomes == {"data", "no_data", "raises"}

\* SnapshotRepository.get_latest_baseline, as far as its callers use it:
\* whether it returns a snapshot.  A query that raises gives None.
HasLatestBaseline(table, employee_username, day, raises) ==
    /\ ~raises
    /\ \E k \in 1..Len(table) :
          /\ table[k].employee_username = employee_username
          /\ table[k].is_baseline
          /\ table[k].snapshot_day = day

\* SnapshotRepository.store_snapshot: the table after it; an insert that raises
\* leaves the table as it is
StoreSnapshot(table, employee_username, is_baseline, notes, day, raises) ==
    IF raises THEN table
    ELSE Append(table, [employee_username |-> employee_username,
                        is_baseline |-> is_baseline,
                        notes |-> notes,
                        snapshot_day |-> day])

\* the body of the loop of take_baseline_snapshots for one employee
BaselineStep(table, employee_username, day, query_raises, fetched, store_raises) ==
    IF HasLatestBaseline(table, employee_username, day, query_raises) THEN table
    ELSE IF fetched # "data" THEN table
    ELSE StoreSnapshot(table, employee_username, TRUE, "Morning baseline snapshot", day,
                       store_raises)

\* the body of the loop of generate_shift_report for one employee, as far as
\* the table goes
ReportStep(table, employee_username, day, query_raises, fetched, store_raises) ==
    IF ~HasLatestBaseline(table, employee_username, day, query_raises) THEN table
    ELSE IF fetched # "data" THEN table
    ELSE StoreSnapshot(table, employee_username, FALSE, "Evening snapshot for shift report",
                       day, store_raises)

\* the tables the loop body of a job can leave for one employee
StepOutcomes(job, table, employee_username, day) ==
    { IF job = "baseline"
      THEN BaselineStep(table, employee_username, day, query_raises, fetched, store_raises)
      ELSE ReportStep(table, employee_username, day, query_raises, fetched, store_raises) :
        query_raises \in BOOLEAN, fetched \in FetchOutcomes, store_raises \in BOOLEAN }

RECURSIVE RunJob(_, _, _, _, _)
\* "for employee_username in EMPLOYEE_SHEETS.keys()" from the k-th employee on:
\* the body runs inside try/except, so the loop goes on to the next employee
\* whatever happens in it.  The result is the set of the outcomes.
RunJob(job, table, day, k, processed) ==
    IF k > Len(EMPLOYEE_SHEETS) THEN {[snapshots |-> table, processed |-> processed]}
    ELSE UNION { RunJob(job, after, day, k + 1, Append(processed, EMPLOYEE_SHEETS[k])) :
                    after \in StepOutcomes(job, table, EMPLOYEE_SHEETS[k], day) }

InitSnapshot ==
    /\ DailyIdle
    /\ ParseIdle
    /\ FormatIdle
    /\ DiffIdle
    /\ StatusIdle
    /\ AnalyzeIdle
    /\ AttributeIdle
    /\ ToolIdle
    /\ DeliveryIdle
    /\ snapshots = << >>
    /\ today = 1
    /\ runs = 0
    /\ last_run = NoRun

\* ShiftReportService.take_baseline_snapshots
TakeBaselineSnapshots ==
    /\ runs < MaxRuns
    /\ runs' = runs + 1
    /\ \E outcome \in RunJob("baseline", snapshots, today, 1, << >>) :
          /\ snapshots' = outcome.snapshots
          /\ last_run' = [job |-> "baseline", processed |-> outcome.processed]
    /\ UNCHANGED <<today, notSnapshot>>

\* ShiftReportService.generate_shift_report: without the report channel it
\* returns before the loop
GenerateShiftReport ==
    /\ runs < MaxRuns
    /\ runs' = runs + 1
    /\ \E channel_found \in BOOLEAN :
          IF channel_found
          THEN \E outcome \in RunJob("report", snapshots, today, 1, << >>) :
                  /\ snapshots' = outcome.snapshots
                  /\ last_run' = [job |-> "report", processed |-> outcome.processed]
          ELSE /\ last_run' = [job |-> "no_channel", processed |-> << >>]
               /\ UNCHANGED snapshots
    /\ UNCHANGED <<today, notSnapshot>>

\* midnight
NextDay ==
    /\ today < MaxDays
    /\ today' = today + 1
    /\ UNCHANGED <<snapshots, runs, last_run, notSnapshot>>

NextSnapshot == TakeBaselineSnapshots \/ GenerateShiftReport \/ NextDay

SpecSnapshot == InitSnapshot /\ [][NextSnapshot]_vars

\* the baselines stored for an employee on a day
BaselinesOf(employee_username, day) ==
    { k \in 1..Len(snapshots) :
        /\ snapshots[k].employee_username = employee_username
        /\ snapshots[k].is_baseline
        /\ snapshots[k].snapshot_day = day }

\* C29: whatever runs of take_baseline_snapshots and generate_shift_report a
\* day has seen, each employee has at most one snapshot marked baseline for
\* that day, no evening snapshot is marked baseline, and a run that entered its
\* loop processed every employee.
C29_OneBaselinePerDay ==
    /\ \A k \in 1..Len(EMPLOYEE_SHEETS), day \in 1..MaxDays :
          Cardinality(BaselinesOf(EMPLOYEE_SHEETS[k], day)) <= 1
    /\ \A k \in 1..Len(snapshots) :
          snapshots[k].notes = "Evening snapshot for shift report" => ~snapshots[k].is_baseline
    /\ last_run.job \in {"baseline", "report"} => last_run.processed = EMPLOYEE_SHEETS

(***************************************************************************)
(* The daily reminder job: ReminderScheduler._send_employee_reminder with  *)
(* _should_send_blank_reminder and _update_blank_reminder_timestamp        *)
(* (services/scheduler.py).  Time is counted in hours.                     *)
(***************************************************************************)

\* the number of days the daily job runs on
MaxDailyDays == 4

\* the job runs once a day
HoursPerDay == 24

\* "if hours_since >= 72"
BLANK_REMINDER_HOURS == 72

\* the file of an employee that was never written
NoFile == [exists |-> FALSE, last_sent |-> 0]

\* ReminderScheduler._should_send_blank_reminder
ShouldSendBlankReminder(file, now_) ==
    IF ~file.exists THEN TRUE
    ELSE now_ - file.last_sent >= BLANK_REMINDER_HOURS

\* ReminderScheduler._update_blank_reminder_timestamp: the file after it; a
\* write that raises leaves the file as it is
UpdateBlankReminderTimestamp(file, now_, raises) ==
    IF raises THEN file ELSE [exists |-> TRUE, last_sent |-> now_]

\* filtered_actions of one customer: signup tasks only when they are due
FilterActions(action_groups, should_send_signups) ==
    SelectSeq(action_groups, LAMBDA group : group[1] # "signup" \/ should_send_signups)

RECURSIVE FilterTasks(_, _)
\* filtered_tasks: the customers that keep a task after the filtering
FilterTasks(tasks_by_customer, should_send_signups) ==
    IF tasks_by_customer = << >> THEN << >>
    ELSE LET customer == Head(tasks_by_customer)[1]
             filtered_actions == FilterActions(Head(tasks_by_customer)[2], should_send_signups)
         IN  (IF filtered_actions # << >> THEN << <<customer, filtered_actions>> >> ELSE << >>)
             \o FilterTasks(Tail(tasks_by_customer), should_send_signups)

\* the message made of the tasks names a signup task: _format_reminder_message
\* and _send_split_reminders both write a line for each action type of each
\* customer that has tasks
NamesSignup(tasks) ==
    \E i \in 1..Len(tasks) :
        \E j \in 1..Len(tasks[i][2]) :
            tasks[i][2][j][1] = "signup" /\ tasks[i][2][j][2] # << >>

\* _send_employee_reminder for a fetched sheet: what it sends and what it
\* leaves in the employee's file.  fetched.ok is FALSE when the sheet could
\* not be fetched.
SendEmployeeReminderOutcome(file, now_, fetched, send_raises, write_raises) ==
    LET tasks_by_customer == AnalyzeTrackingData(fetched.data).tasks_by_customer
        should_send_signups == ShouldSendBlankReminder(file, now_)
        filtered_tasks == FilterTasks(tasks_by_customer, should_send_signups)
        nothing == [file |-> file, sent |-> FALSE, signups_sent |-> FALSE]
    IN  IF ~fetched.ok \/ fetched.data = << >> THEN nothing
        ELSE IF tasks_by_customer = << >> THEN nothing
        ELSE IF filtered_tasks = << >> THEN nothing
        ELSE IF send_raises THEN nothing
        ELSE [file |-> IF should_send_signups
                       THEN UpdateBlankReminderTimestamp(file, now_, write_raises)
                       ELSE file,
              sent |-> TRUE,
              signups_sent |-> NamesSignup(filtered_tasks)]

\* the Tracking sheets the job fetches: all tasks done, open tasks without a
\* signup, a signup among other tasks, signups only.  A customer is a column of
\* the first row, so a blank cell makes a task from the second row on.
DailySheets ==
    { SheetData(<<Header>> \o rows) :
        rows \in { << <<"Fanduel", "$1000", "done", "done", "complete">> >>,
                    << <<"Fanduel", "$1000", "verify", "done", "1k">> >>,
                    << <<"Fanduel", "$1000", "verify", "done", "1k">>,
                       <<"Bet365", "$500", "done", "verify", "">> >>,
                    << <<"Fanduel", "$1000", "done", "done", "done">>,
                       <<"Betway", "$250", "", "done", "">> >> } }

\* what get_employee_sheet gives
DailyFetches ==
    {[ok |-> FALSE, data |-> << >>], [ok |-> TRUE, data |-> << >>]}
        \cup { [ok |-> TRUE, data |-> sheet] : sheet \in DailySheets }

\* the employees the job runs for
DailyEmployees == {"darcmeho", "dillongranger22"}

InitDaily ==
    /\ ParseIdle
    /\ FormatIdle
    /\ DiffIdle
    /\ StatusIdle
    /\ AnalyzeIdle
    /\ AttributeIdle
    /\ ToolIdle
    /\ DeliveryIdle
    /\ SnapshotIdle
    /\ blank_reminder_file = [employee \in DailyEmployees |-> NoFile]
    /\ daily_now = 0
    /\ last_reminder = NoReminder

\* _send_employee_reminder(channel, employee_username)
SendEmployeeReminder ==
    /\ \E employee \in DailyEmployees, fetched \in DailyFetches,
          send_raises \in BOOLEAN, write_raises \in BOOLEAN :
          LET outcome == SendEmployeeReminderOutcome(blank_reminder_file[employee], daily_now,
                                                     fetched, send_raises, write_raises)
          IN  /\ blank_reminder_file' = [blank_reminder_file EXCEPT ![employee] = outcome.file]
              /\ last_reminder' = [employee_username |-> employee, sent |-> outcome.sent,
                                   signups_sent |-> outcome.signups_sent]
    /\ UNCHANGED <<daily_now, notDaily>>

\* the next day's run of the job is due
DailyTick ==
    /\ daily_now < MaxDailyDays * HoursPerDay
    /\ daily_now' = daily_now + HoursPerDay
    /\ last_reminder' = NoReminder
    /\ UNCHANGED <<blank_reminder_file, notDaily>>

NextDaily == SendEmployeeReminder \/ DailyTick

SpecDaily == InitDaily /\ [][NextDaily]_vars

\* C30: an employee's last-blank-reminder timestamp is written only by a run
\* that sent that employee a reminder naming signup tasks; a run whose message
\* names no signup task, or that sends nothing, leaves it unchanged.
C30_TimestampOnlyWithSignups ==
    [][\A employee \in DOMAIN blank_reminder_file :
          blank_reminder_file'[employee] # blank_reminder_file[employee] =>
              /\ last_reminder'.employee_username = employee
              /\ last_reminder'.sent
              /\ last_reminder'.signups_sent]_vars

====
